---- MODULE Spec2Model ----
(***************************************************************************)
(* Model of the wireframe renderer (src/render_wireframes.py).             *)
(*                                                                         *)
(* Conventions.                                                            *)
(*  - A Python str is a sequence of one-character strings; the two         *)
(*    non-ASCII characters the renderer emits are the tokens "ELLIPSIS"    *)
(*    and "BULLET", each one character long.                               *)
(*  - A JSON value is a tagged record: JNull, JStr(s), JNum(n), JList(l),  *)
(*    JObj(o).  An object o is a function from keys to JSON values; a key  *)
(*    that is absent from the JSON text is absent from DOMAIN o.           *)
(*  - SVG coordinates are kept in sixths of a pixel (U units per pixel),   *)
(*    so that the renderer's float divisions by 2 and by 3 stay exact.     *)
(***************************************************************************)
EXTENDS Integers, Sequences, FiniteSets, TLC

(* ------------------------------------------------------------------ *)
(* Layout constants                                                   *)
(* ------------------------------------------------------------------ *)
CANVAS_W == 1200
CANVAS_H == 1850
MARGIN == 36
GUTTER == 18
HEADER_H == 70
SECTION_GAP == 18
SECTION_PAD == 18
NEWSLETTER_BAND_H == 220
FOOTER_DARK_H == 140
COMP_H == 34
COMP_GAP == 10
LOGO_W == 120
LOGO_H == 44
HEADER_CTA_W == 130
HEADER_CTA_H == 34
NAV_GAP == 22
NAV_RIGHT_GAP == 18
SHOW_SEMANTIC_OVERLAY == TRUE

\* sub-pixel units per pixel in the coordinates of SVG elements
U == 2 * 3

Min(a, b) == IF a <= b THEN a ELSE b
Max(a, b) == IF a >= b THEN a ELSE b

(* ------------------------------------------------------------------ *)
(* Python str operations                                              *)
(* ------------------------------------------------------------------ *)
WS == {" ", "\t", "\n", "\r"}
UPPER == <<"A", "B", "C", "D", "E", "F", "G", "H", "I", "J", "K", "L", "M",
           "N", "O", "P", "Q", "R", "S", "T", "U", "V", "W", "X", "Y", "Z">>
LOWER == <<"a", "b", "c", "d", "e", "f", "g", "h", "i", "j", "k", "l", "m",
           "n", "o", "p", "q", "r", "s", "t", "u", "v", "w", "x", "y", "z">>
DIGITS == <<"0", "1", "2", "3", "4", "5", "6", "7", "8", "9">>

RECURSIVE lstrip(_)
lstrip(s) == IF s # <<>> /\ Head(s) \in WS THEN lstrip(Tail(s)) ELSE s

RECURSIVE rstrip(_)
rstrip(s) == IF s # <<>> /\ s[Len(s)] \in WS THEN rstrip(SubSeq(s, 1, Len(s) - 1)) ELSE s

strip(s) == rstrip(lstrip(s))

lower_char(c) ==
    IF \E i \in 1..26 : UPPER[i] = c THEN LOWER[CHOOSE i \in 1..26 : UPPER[i] = c] ELSE c

upper_char(c) ==
    IF \E i \in 1..26 : LOWER[i] = c THEN UPPER[CHOOSE i \in 1..26 : LOWER[i] = c] ELSE c

lower(s) == [i \in 1..Len(s) |-> lower_char(s[i])]
upper(s) == [i \in 1..Len(s) |-> upper_char(s[i])]

\* s.replace(a, b) for one-character a and b
replace(s, a, b) == [i \in 1..Len(s) |-> IF s[i] = a THEN b ELSE s[i]]

\* s[:k], negative k counting from the end
slice_to(s, k) ==
    IF k >= 0 THEN SubSeq(s, 1, Min(k, Len(s))) ELSE SubSeq(s, 1, Max(0, Len(s) + k))

\* s[k:] for k >= 0
slice_from(s, k) == SubSeq(s, Min(k, Len(s)) + 1, Len(s))

RECURSIVE split(_)
\* s.split(): the maximal runs of non-whitespace characters
split(s) ==
    LET t == lstrip(s)
        n == IF \E i \in 1..Len(t) : t[i] \in WS
             THEN (CHOOSE i \in 1..Len(t) : t[i] \in WS /\ \A j \in 1..(i - 1) : t[j] \notin WS) - 1
             ELSE Len(t)
    IN  IF t = <<>> THEN <<>> ELSE <<SubSeq(t, 1, n)>> \o split(SubSeq(t, n + 1, Len(t)))

RECURSIVE join(_, _)
\* sep.join(parts)
join(sep, parts) ==
    IF parts = <<>> THEN <<>>
    ELSE IF Len(parts) = 1 THEN parts[1]
    ELSE parts[1] \o sep \o join(sep, Tail(parts))

\* " ".join(s.split())
squeeze(s) == join(<<" ">>, split(s))

RECURSIVE int_str(_)
\* str(n) for an int n >= 0
int_str(n) == IF n < 10 THEN <<DIGITS[n + 1]>> ELSE int_str(n \div 10) \o <<DIGITS[(n % 10) + 1]>>

(* ------------------------------------------------------------------ *)
(* JSON values                                                        *)
(* ------------------------------------------------------------------ *)
JNull == [t |-> "null"]
JStr(s) == [t |-> "str", s |-> s]
JNum(n) == [t |-> "num", n |-> n]
JList(l) == [t |-> "list", l |-> l]
JObj(o) == [t |-> "obj", o |-> o]
EmptyObj == JObj(<<>>)

IsStr(v) == v.t = "str"
IsList(v) == v.t = "list"
IsObj(v) == v.t = "obj"

\* Python truthiness of a JSON value
truthy(v) ==
    CASE v.t = "null" -> FALSE
      [] v.t = "str" -> v.s # <<>>
      [] v.t = "num" -> v.n # 0
      [] v.t = "list" -> v.l # <<>>
      [] v.t = "obj" -> DOMAIN v.o # {}

\* a or b
py_or(a, b) == IF truthy(a) THEN a ELSE b

\* d.get(key, default) on an object d
get(d, key, default) == IF key \in DOMAIN d.o THEN d.o[key] ELSE default

\* d.get(key)
get1(d, key) == get(d, key, JNull)

L_None == <<"N", "o", "n", "e">>

\* str(x) of a JSON scalar
py_str(v) ==
    CASE v.t = "str" -> v.s
      [] v.t = "num" -> int_str(v.n)
      [] v.t = "null" -> L_None

(* ------------------------------------------------------------------ *)
(* Utilities                                                          *)
(* ------------------------------------------------------------------ *)
amp_entity == <<"&", "a", "m", "p", ";">>
lt_entity == <<"&", "l", "t", ";">>
gt_entity == <<"&", "g", "t", ";">>
quot_entity == <<"&", "q", "u", "o", "t", ";">>
apos_entity == <<"&", "a", "p", "o", "s", ";">>

RECURSIVE escape_xml(_)
escape_xml(text) ==
    IF text = <<>> THEN <<>>
    ELSE LET c == Head(text)
             e == CASE c = "&" -> amp_entity
                    [] c = "<" -> lt_entity
                    [] c = ">" -> gt_entity
                    [] c = "\"" -> quot_entity
                    [] c = "'" -> apos_entity
                    [] OTHER -> <<c>>
         IN  e \o escape_xml(Tail(text))

\* truncate(text, max_len); text is a JSON string or null
\* a faulty variant: max_len characters are kept before the ellipsis
truncate_no_room(text, max_len) ==
    LET s == strip(py_or(text, JStr(<<>>)).s)
    IN  IF Len(s) <= max_len THEN s
        ELSE rstrip(slice_to(s, max_len)) \o <<"ELLIPSIS">>

\* a faulty variant: a text of exactly max_len characters is cut too
truncate_strict(text, max_len) ==
    LET s == strip(py_or(text, JStr(<<>>)).s)
    IN  IF Len(s) < max_len THEN s
        ELSE rstrip(slice_to(s, max_len - 1)) \o <<"ELLIPSIS">>

\* truncate(text, max_len); text is a str or None
truncate(text, max_len) ==
    LET s == strip(py_or(text, JStr(<<>>)).s)
    IN  IF Len(s) <= max_len THEN s
        ELSE rstrip(slice_to(s, max_len - 1)) \o <<"ELLIPSIS">>

\* approx_text_width(label): int(len(label or "") * 7.0)
approx_text_width(label) == Len(py_or(label, JStr(<<>>)).s) * 7

\* canon(s); s is a JSON string or null
canon(s) == replace(replace(lower(strip(py_or(s, JStr(<<>>)).s)), "_", "-"), " ", "-")

\* sec.get("components") or []
components_of(sec) == py_or(get1(sec, "components"), JList(<<>>)).l

\* find_components(sec, *types_); types_ is a set of str
find_components(sec, types_) ==
    LET wanted == {canon(JStr(t)) : t \in types_}
    IN  SelectSeq(components_of(sec), LAMBDA c : canon(get1(c, "type")) \in wanted)

\* the first component whose canonical type is kind, or None
first_of_kind(sec, kind) ==
    LET m == SelectSeq(components_of(sec), LAMBDA c : canon(get1(c, "type")) = kind)
    IN  IF m = <<>> THEN JNull ELSE m[1]

\* [str(x) for x in l if str(x).strip()]
nonblank_strs(l) ==
    LET strs == [i \in 1..Len(l) |-> py_str(l[i])]
    IN  SelectSeq(strs, LAMBDA s : strip(s) # <<>>)

\* a faulty variant: fields is consulted whenever items yields nothing, also when items
\* is a non-empty list of blank entries
list_items_from_component_fallthrough(c) ==
    LET items == get1(c, "items")
        fields == get1(c, "fields")
    IN  IF IsList(items) /\ nonblank_strs(items.l) # <<>> THEN nonblank_strs(items.l)
        ELSE IF IsList(fields) /\ fields.l # <<>> THEN nonblank_strs(fields.l)
        ELSE <<>>

list_items_from_component(c) ==
    LET items == get1(c, "items")
        fields == get1(c, "fields")
    IN  IF IsList(items) /\ items.l # <<>> THEN nonblank_strs(items.l)
        ELSE IF IsList(fields) /\ fields.l # <<>> THEN nonblank_strs(fields.l)
        ELSE <<>>

\* best_text_for_component(c, fallback); returns a JSON string, or the fallback as given
best_text_for_component(c, fallback) ==
    LET ph == strip(py_or(get1(c, "placeholder"), JStr(<<>>)).s)
        lab == strip(py_or(get1(c, "label"), JStr(<<>>)).s)
    IN  IF ph # <<>> THEN JStr(ph) ELSE IF lab # <<>> THEN JStr(lab) ELSE fallback

first_text_like(sec) == first_of_kind(sec, <<"t", "e", "x", "t">>)
first_button(sec) == first_of_kind(sec, <<"b", "u", "t", "t", "o", "n">>)

(* ------------------------------------------------------------------ *)
(* Section and component kind tags as the source spells them          *)
(* ------------------------------------------------------------------ *)
K_hero == <<"h", "e", "r", "o">>
K_features == <<"f", "e", "a", "t", "u", "r", "e", "s">>
K_content == <<"c", "o", "n", "t", "e", "n", "t">>
K_proof == <<"p", "r", "o", "o", "f">>
K_steps == <<"s", "t", "e", "p", "s">>
K_faq == <<"f", "a", "q">>
K_cta == <<"c", "t", "a">>
K_call_to_action == <<"c", "a", "l", "l", "-", "t", "o", "-", "a", "c", "t", "i", "o", "n">>
K_form == <<"f", "o", "r", "m">>
K_gallery == <<"g", "a", "l", "l", "e", "r", "y">>
K_footerUcta == <<"f", "o", "o", "t", "e", "r", "_", "c", "t", "a">>
K_footer_cta == <<"f", "o", "o", "t", "e", "r", "-", "c", "t", "a">>
K_section == <<"s", "e", "c", "t", "i", "o", "n">>
K_cta_section == <<"c", "t", "a", "-", "s", "e", "c", "t", "i", "o", "n">>
K_footer_call_to_action == <<"f", "o", "o", "t", "e", "r", "-", "c", "a", "l", "l", "-", "t",
    "o", "-", "a", "c", "t", "i", "o", "n">>
K_footerUcallUtoUaction == <<"f", "o", "o", "t", "e", "r", "_", "c", "a", "l", "l", "_", "t",
    "o", "_", "a", "c", "t", "i", "o", "n">>
K_cards == <<"c", "a", "r", "d", "s">>
K_list == <<"l", "i", "s", "t">>
K_text == <<"t", "e", "x", "t">>
K_accordion == <<"a", "c", "c", "o", "r", "d", "i", "o", "n">>
K_quote == <<"q", "u", "o", "t", "e">>
K_stats == <<"s", "t", "a", "t", "s">>
K_button == <<"b", "u", "t", "t", "o", "n">>
K_form_field == <<"f", "o", "r", "m", "-", "f", "i", "e", "l", "d">>
K_formUfield == <<"f", "o", "r", "m", "_", "f", "i", "e", "l", "d">>
K_field == <<"f", "i", "e", "l", "d">>
K_input == <<"i", "n", "p", "u", "t">>
K_textarea == <<"t", "e", "x", "t", "a", "r", "e", "a">>
K_select == <<"s", "e", "l", "e", "c", "t">>
K_checkbox == <<"c", "h", "e", "c", "k", "b", "o", "x">>
K_radio == <<"r", "a", "d", "i", "o">>

FIELD_KINDS == {K_form_field, K_formUfield, K_field, K_input, K_textarea, K_select,
                K_checkbox, K_radio}

(* ------------------------------------------------------------------ *)
(* Dynamic section sizing                                             *)
(* ------------------------------------------------------------------ *)
\* a faulty variant: a list without items is sized like a full one
sized_rows_default_hi(sec, kind, lo, hi, dflt) ==
    LET found == find_components(sec, {kind})
        items == IF found # <<>> THEN list_items_from_component(found[1]) ELSE <<>>
    IN  IF items # <<>> THEN Max(lo, Min(hi, Len(items))) ELSE hi

\* the row count a section is sized with: clamp(lo, hi, n) when the first component of
\* kind `kind` yields n >= 1 items, dflt otherwise
sized_rows(sec, kind, lo, hi, dflt) ==
    LET found == find_components(sec, {kind})
        items == IF found # <<>> THEN list_items_from_component(found[1]) ELSE <<>>
    IN  IF items # <<>> THEN Max(lo, Min(hi, Len(items))) ELSE dflt

inner_bottom_hero(inner_y) ==
    LET img_h == 240
        b == Max(inner_y + img_h, inner_y + 240)
    IN  b + 14

inner_bottom_features(inner_y) == inner_y + 140 + 14

inner_bottom_content(sec, inner_y) ==
    LET divider_y == inner_y + 120
        heading_y == divider_y + 48
        bullet_rows == sized_rows(sec, K_list, 4, 12, 4)
        bullets_start_y == heading_y + 32
        bullets_end_y == bullets_start_y + (bullet_rows * 22)
        text_count == Len(find_components(sec, {K_text}))
        para_extra == Max(0, text_count - 1) * 22
        bottom == Max(bullets_end_y, inner_y + 96 + para_extra)
    IN  bottom + 18

\* a faulty variant: the row count is capped at 8
inner_bottom_faq_cap_8(sec, inner_y) ==
    LET faq_items == sized_rows(sec, K_accordion, 4, 8, 4)
    IN  inner_y + (faq_items * 44) + 10

inner_bottom_faq(sec, inner_y) ==
    LET faq_items == sized_rows(sec, K_accordion, 4, 10, 4)
    IN  inner_y + (faq_items * 44) + 10

inner_bottom_proof(sec, inner_y) ==
    IF find_components(sec, {K_quote}) # <<>> THEN inner_y + 90 + 14
    ELSE IF find_components(sec, {K_stats}) # <<>> THEN inner_y + 110 + 14
    ELSE inner_y + 90 + 14

inner_bottom_steps(sec, inner_y) ==
    LET steps == sized_rows(sec, K_list, 3, 8, 3)
    IN  inner_y + (steps * 36) + 18

inner_bottom_form(sec, inner_y) ==
    LET ff == find_components(sec, FIELD_KINDS)
        fields_count == IF ff # <<>> THEN Max(3, Min(6, Len(ff))) ELSE 3
    IN  inner_y + 70 + (fields_count * 36) + 18

inner_bottom_cta(inner_y) == inner_y + 90 + 34 + 18

inner_bottom_generic(sec, inner_y) ==
    LET comps == py_or(get(sec, "components", JList(<<>>)), JList(<<>>)).l
        rows == IF comps # <<>> THEN Min(6, Len(comps)) ELSE 3
    IN  inner_y + rows * (COMP_H + COMP_GAP) + 18

SIZED_AS_CTA == {K_cta, K_footer_cta, K_footerUcta, K_cta_section, K_call_to_action}

\* _inner_bottom_for_section(st, sec, inner_y, inner_x, inner_w); st is a str
inner_bottom_for_section(st0, sec, inner_y, inner_x, inner_w) ==
    LET st == canon(JStr(st0))
    IN  CASE st = K_hero -> inner_bottom_hero(inner_y)
          [] st = K_features -> inner_bottom_features(inner_y)
          [] st = K_content -> inner_bottom_content(sec, inner_y)
          [] st = K_faq -> inner_bottom_faq(sec, inner_y)
          [] st = K_proof -> inner_bottom_proof(sec, inner_y)
          [] st = K_steps -> inner_bottom_steps(sec, inner_y)
          [] st = K_form -> inner_bottom_form(sec, inner_y)
          [] st \in SIZED_AS_CTA -> inner_bottom_cta(inner_y)
          [] OTHER -> inner_bottom_generic(sec, inner_y)

\* the min_total table of section_height_for, with its default
min_total(st) ==
    CASE st = K_hero -> 360
      [] st = K_features -> 260
      [] st = K_content -> 280
      [] st = K_proof -> 210
      [] st = K_steps -> 240
      [] st = K_faq -> 220
      [] st = K_cta -> 160
      [] st = K_call_to_action -> 160
      [] st = K_form -> 240
      [] st = K_gallery -> 240
      [] st = K_footerUcta -> 160
      [] st = K_footer_cta -> 160
      [] st = K_section -> 220
      [] OTHER -> 220

\* a faulty variant: the content-driven height alone, the floor forgotten
total_height_no_floor(floor, header_block, inner_bottom) == header_block + inner_bottom + 8

\* max(min_total, header_block + inner_bottom + 8)
total_height(floor, header_block, inner_bottom) == Max(floor, header_block + inner_bottom + 8)

section_height_for(sec) ==
    LET st == canon(get1(sec, "type"))
        header_block == 72
        inner_bottom == inner_bottom_for_section(st, sec, 0, SECTION_PAD, 1000)
    IN  total_height(min_total(st), header_block, inner_bottom)

(* ------------------------------------------------------------------ *)
(* Literal strings of the renderer                                    *)
(* ------------------------------------------------------------------ *)
L_Section == <<"S", "e", "c", "t", "i", "o", "n">>
L_LearnMore == <<"L", "e", "a", "r", "n", " ", "M", "o", "r", "e">>
L_Caption == <<"C", "a", "p", "t", "i", "o", "n", " ", "s", "i", "z", "e", " ", "t", "e", "x",
    "t", " ", "h", "e", "r", "e", " ", "w", "i", "t", "h", " ", "a", " ", "l", "i", "n", "k">>
L_LoremComma == <<"L", "o", "r", "e", "m", " ", "i", "p", "s", "u", "m", " ", "d", "o", "l",
    "o", "r", " ", "s", "i", "t", " ", "a", "m", "e", "t", ",">>
L_LoremDot == <<"L", "o", "r", "e", "m", " ", "i", "p", "s", "u", "m", " ", "d", "o", "l", "o",
    "r", " ", "s", "i", "t", " ", "a", "m", "e", "t", ".">>
L_LoremConsectetur == <<"L", "o", "r", "e", "m", " ", "i", "p", "s", "u", "m", " ", "d", "o",
    "l", "o", "r", " ", "s", "i", "t", " ", "a", "m", "e", "t", ",", " ", "c", "o", "n", "s",
    "e", "c", "t", "e", "t", "u", "r">>
L_LoremElit == <<"L", "o", "r", "e", "m", " ", "i", "p", "s", "u", "m", " ", "d", "o", "l",
    "o", "r", " ", "s", "i", "t", " ", "a", "m", "e", "t", ",", " ", "c", "o", "n", "s", "e",
    "c", "t", "e", "t", "u", "r", " ", "a", "d", "i", "p", "i", "s", "c", "i", "n", "g", " ",
    "e", "l", "i", "t", ".">>
L_CONTENT == <<"C", "O", "N", "T", "E", "N", "T">>
L_AdditionalPoint == <<"A", "d", "d", "i", "t", "i", "o", "n", "a", "l", " ", "p", "o", "i",
    "n", "t", ".", ".", ".">>
L_IMAGE == <<"I", "M", "A", "G", "E">>
L_Step == <<"S", "t", "e", "p", " ">>
L_ImpactStatistics == <<"I", "m", "p", "a", "c", "t", " ", "S", "t", "a", "t", "i", "s", "t",
    "i", "c", "s">>
L_ConfirmStats == <<"[", "C", "O", "N", "F", "I", "R", "M", " ", "i", "m", "p", "a", "c", "t",
    " ", "s", "t", "a", "t", "i", "s", "t", "i", "c", "s", "]">>
L_ExpertQuote == <<"E", "x", "p", "e", "r", "t", " ", "q", "u", "o", "t", "e", " ", "o", "r",
    " ", "t", "e", "s", "t", "i", "m", "o", "n", "i", "a", "l">>
L_ProofCaption == <<"P", "r", "o", "o", "f", " ", "/", " ", "T", "e", "s", "t", "i", "m", "o",
    "n", "i", "a", "l", " ", "/", " ", "S", "t", "a", "t", "s">>
L_FAQitem == <<"F", "A", "Q", " ", "i", "t", "e", "m", " ">>
L_Field == <<"F", "i", "e", "l", "d">>
L_Name == <<"N", "a", "m", "e">>
L_Email == <<"E", "m", "a", "i", "l">>
L_Message == <<"M", "e", "s", "s", "a", "g", "e">>
L_SendMessage == <<"S", "e", "n", "d", " ", "M", "e", "s", "s", "a", "g", "e">>
L_TakeAction == <<"T", "a", "k", "e", " ", "A", "c", "t", "i", "o", "n">>
L_PlaceholderContent == <<"P", "l", "a", "c", "e", "h", "o", "l", "d", "e", "r", " ", "c", "o",
    "n", "t", "e", "n", "t">>
L_Component == <<"C", "o", "m", "p", "o", "n", "e", "n", "t">>
L_intent == <<"i", "n", "t", "e", "n", "t", ":", " ">>
L_facts == <<" ", "BULLET", " ", "f", "a", "c", "t", "s", ":", " ">>
L_id == <<" ", "BULLET", " ", "i", "d", ":", " ">>
L_section_dash == <<"s", "e", "c", "t", "i", "o", "n", "-">>
L_item == <<" ", "i", "t", "e", "m", " ">>
L_bullet == <<"BULLET", " ">>
L_dot == <<".", " ">>
L_space == <<" ">>

(* ------------------------------------------------------------------ *)
(* SVG helpers: an element is a record, coordinates in 1/U pixel      *)
(* ------------------------------------------------------------------ *)
P(v) == U * v
Half(v) == (U * v) \div 2

rect(x, y, w, h, cls, rx) ==
    [kind |-> "rect", x |-> x, y |-> y, w |-> w, h |-> h, cls |-> cls, rx |-> rx]

\* anchor "" stands for anchor=None
text(x, y, t, extra_cls, anchor) ==
    [kind |-> "text", x |-> x, y |-> y, t |-> escape_xml(t), cls |-> extra_cls,
     anchor |-> anchor]

line(x1, y1, x2, y2, cls) ==
    [kind |-> "line", x1 |-> x1, y1 |-> y1, x2 |-> x2, y2 |-> y2, cls |-> cls]

\* button(): one rounded rect and its centred label
button(x, y, w, h, label, dark) ==
    LET cls == IF dark THEN "button-dark" ELSE "button"
        tcls == IF dark THEN "button-text-inv" ELSE "button-text"
        tx == x + (w \div 2)
        ty == y + (h \div 2) + P(4)
    IN  <<rect(x, y, w, h, cls, 10),
          [kind |-> "text", x |-> tx, y |-> ty, t |-> escape_xml(label), cls |-> tcls,
           anchor |-> "middle"]>>

RECURSIVE flatten(_)
flatten(ss) == IF ss = <<>> THEN <<>> ELSE Head(ss) \o flatten(Tail(ss))

\* int(v * 0.28), int(v * 0.55), int(v * 0.86): the float product truncates like the exact one
\* for every v in 0..1199
int_times_028(v) == (v * 28) \div 100
int_times_055(v) == (v * 55) \div 100
int_times_086(v) == (v * 86) \div 100
\* int(v * 0.82): the double nearest 0.82 is below 0.82, so the float product falls short of
\* the integer at v = 150, 300, 600 and truncates one lower (v in 0..1199)
int_times_082(v) == IF v \in {150, 300, 600} THEN ((v * 82) \div 100) - 1 ELSE (v * 82) \div 100

(* ------------------------------------------------------------------ *)
(* Section rendering                                                  *)
(* ------------------------------------------------------------------ *)
\* label = truncate(sec.get("label", st or "Section"), 60)
section_label(sec, st) ==
    truncate(get(sec, "label", JStr(IF st # <<>> THEN st ELSE L_Section)), 60)

\* h2 = truncate(sec.get("h2", ""), 80) or label
section_h2(sec, label) ==
    LET t == truncate(get(sec, "h2", JStr(<<>>)), 80)
    IN  IF t # <<>> THEN t ELSE label

\* h3 = sec.get("h3") or [], and [] when that is no list
section_h3(sec) ==
    LET v == py_or(get1(sec, "h3"), JList(<<>>))
    IN  IF IsList(v) THEN v.l ELSE <<>>

\* best_text_for_component(c, fallback) if c else fallback
text_of(c, fallback) ==
    IF truthy(c) THEN best_text_for_component(c, JStr(fallback)) ELSE JStr(fallback)

\* the semantic overlay line; raises when sec["semantic"] is no object or its
\* supporting_facts has no len()
overlay_raises(sec) ==
    LET sem == get(sec, "semantic", EmptyObj)
    IN  \/ ~IsObj(sem)
        \/ get(sem, "supporting_facts", JList(<<>>)).t \in {"null", "num"}

overlay_text(sec) ==
    LET sem == get(sec, "semantic", EmptyObj)
        intent == py_or(get(sem, "intent", JStr(<<>>)), JStr(<<>>)).s
        facts == get(sem, "supporting_facts", JList(<<>>))
        nfacts == CASE facts.t = "list" -> Len(facts.l)
                    [] facts.t = "str" -> Len(facts.s)
                    [] facts.t = "obj" -> Cardinality(DOMAIN facts.o)
        intent_short == slice_to(intent, 60) \o (IF Len(intent) > 60 THEN <<"ELLIPSIS">> ELSE <<>>)
    IN  L_intent \o intent_short \o L_facts \o int_str(nfacts)

draw_hero(x, y, w, sec, h2, h3) ==
    LET inner_x == x + SECTION_PAD
        inner_y == y + 72
        inner_w == w - (2 * SECTION_PAD)
        img_h == 280
        headline == truncate(JStr(h2), 44)
        title_y == inner_y + 118
        subtitle == truncate(JStr(squeeze(IF h3 # <<>> THEN py_str(h3[1]) ELSE <<>>)), 78)
        subtitle_y == title_y + 28
        btn_label == truncate(JStr(squeeze(py_str(py_or(text_of(first_button(sec), L_LearnMore),
                                                        JStr(<<>>))))), 28)
        btn_w == Max(120, Min(300, 46 + (Len(btn_label) * 9)))
        btn_h == 34
        btn_x == P(x) + Half(w) - Half(btn_w)
        content_bottom_y == IF subtitle # <<>> THEN subtitle_y ELSE title_y
        btn_y == content_bottom_y + 26
        cap_text == truncate(JStr(squeeze(py_str(py_or(text_of(first_text_like(sec), L_Caption),
                                                       JStr(<<>>))))), 78)
        cap_y == btn_y + btn_h + 18
    IN  <<rect(P(inner_x), P(inner_y), P(inner_w), P(img_h), "imgph", 10),
          line(P(inner_x + 10), P(inner_y + 10), P(inner_x + inner_w - 10),
               P(inner_y + img_h - 10), "imgx"),
          line(P(inner_x + inner_w - 10), P(inner_y + 10), P(inner_x + 10),
               P(inner_y + img_h - 10), "imgx"),
          text(P(x) + Half(w), P(title_y), headline, "h1", "middle")>>
        \o (IF subtitle # <<>>
            THEN <<text(P(x) + Half(w), P(subtitle_y), subtitle, "small muted", "middle")>>
            ELSE <<>>)
        \o button(btn_x, P(btn_y), P(btn_w), P(btn_h), btn_label, FALSE)
        \o <<text(P(x) + Half(w), P(cap_y), cap_text, "small nav-link", "middle")>>

draw_features(x, y, w, sec, label, h3) ==
    LET inner_x == x + SECTION_PAD
        inner_y == y + 72
        inner_w == w - (2 * SECTION_PAD)
        card_gap == 16
        card_w == P(inner_w - (2 * card_gap)) \div 3
        card_h == 140
        cards == find_components(sec, {K_cards})
        items == IF cards # <<>> THEN list_items_from_component(cards[1]) ELSE <<>>
        from_cards == [i \in 1..Min(3, Len(items)) |-> JStr(items[i])]
        given == IF from_cards # <<>> THEN from_cards ELSE slice_to(h3, 3)
        card_titles == [i \in 1..Max(3, Len(given)) |->
                           IF i <= Len(given) THEN given[i]
                           ELSE JStr(label \o L_space \o int_str(i))]
        body == truncate(text_of(first_text_like(sec), L_LoremComma), 44)
        btn_label == truncate(text_of(first_button(sec), L_LearnMore), 18)
        card(i) ==
            LET cx == P(inner_x) + (i * (card_w + P(card_gap)))
            IN  <<rect(cx, P(inner_y), card_w, P(card_h), "sketch", 12),
                  text(cx + P(12), P(inner_y + 28), upper(truncate(card_titles[i + 1], 20)),
                       "small", ""),
                  text(cx + P(12), P(inner_y + 54), body, "small muted", "")>>
                \o button(cx + P(12), P(inner_y + 92), P(110), P(30), btn_label, FALSE)
    IN  card(0) \o card(1) \o card(2)

\* a faulty variant: the split rounds down, the right column gets the odd item
left_count_rounded_down(n) == n \div 2

\* left_n = (len(items) + 1) // 2
left_count(n) == (n + 1) \div 2

\* the bulleted block of a content section in two-column mode
draw_two_cols(inner_x, inner_w, col_y, bullet_items_raw) ==
    LET row_h == 22
        col_gap == 26
        items == slice_to(bullet_items_raw, 12)
        left_n == left_count(Len(items))
        left_col0 == slice_to(items, left_n)
        right_col0 == slice_from(items, left_n)
        rows == Max(4, Max(Len(left_col0), Len(right_col0)))
        pad(col) == [i \in 1..Max(rows, Len(col)) |->
                        IF i <= Len(col) THEN col[i] ELSE L_AdditionalPoint]
        cols == <<pad(left_col0), pad(right_col0)>>
        col_w == P(inner_w - col_gap) \div 2
        split_x == P(inner_x) + col_w + Half(col_gap)
        divider_top == col_y - 6
        divider_bottom == col_y + (rows * row_h) + 6
        column(col) ==
            LET bx == P(inner_x) + (col * (col_w + P(col_gap)))
            IN  [i \in 1..rows |->
                    text(bx + P(6), P(col_y + ((i - 1) * row_h)),
                         L_bullet \o truncate(JStr(cols[col + 1][i]), 34), "small", "")]
    IN  <<line(split_x, P(divider_top), split_x, P(divider_bottom), "imgx")>>
        \o column(0) \o column(1)

\* the bulleted block of a content section in one-column mode, with its image placeholder
draw_one_col(inner_x, inner_w, col_y, bullet_items_raw) ==
    LET row_h == 22
        col_gap == 26
        items0 == slice_to(bullet_items_raw, 10)
        rows == Max(4, Len(items0))
        items == [i \in 1..rows |-> IF i <= Len(items0) THEN items0[i] ELSE L_AdditionalPoint]
        list_w == int_times_055(inner_w)
        img_x == inner_x + list_w + col_gap
        img_w == inner_w - list_w - col_gap
        split_x == P(inner_x + list_w) + Half(col_gap)
        divider_top == col_y - 6
        content_h == (rows * row_h) + 18
        divider_bottom == col_y + content_h + 6
        img_h == Min(240, content_h)
        ph_w == int_times_086(img_w)
        ph_h == int_times_082(img_h)
        ph_x == P(img_x) + Half(img_w - ph_w)
        ph_y == P(col_y) + Half(content_h - ph_h)
    IN  <<line(split_x, P(divider_top), split_x, P(divider_bottom), "imgx")>>
        \o [i \in 1..rows |->
               text(P(inner_x + 6), P(col_y + ((i - 1) * row_h)),
                    L_bullet \o truncate(JStr(items[i]), 52), "small", "")]
        \o <<rect(ph_x, ph_y, P(ph_w), P(ph_h), "sketch-dash", 12),
             line(ph_x + P(10), ph_y + P(10), ph_x + P(ph_w) - P(10), ph_y + P(ph_h) - P(10),
                  "imgx"),
             line(ph_x + P(ph_w) - P(10), ph_y + P(10), ph_x + P(10), ph_y + P(ph_h) - P(10),
                  "imgx"),
             text(ph_x + P(14), ph_y + P(24), L_IMAGE, "small muted", "")>>

\* a faulty variant: the threshold is exclusive
use_two_cols_above_8(bullet_items_raw) == Len(bullet_items_raw) > 8

\* use_two_cols = len(bullet_items_raw) >= 8
use_two_cols(bullet_items_raw) == Len(bullet_items_raw) >= 8

draw_content(x, y, w, sec, label, h3) ==
    LET inner_x == x + SECTION_PAD
        inner_y == y + 72
        inner_w == w - (2 * SECTION_PAD)
        left_w == int_times_028(inner_w)
        rx == inner_x + left_w + 18
        lists == find_components(sec, {K_list})
        bullet_items_raw == IF lists # <<>> THEN list_items_from_component(lists[1]) ELSE <<>>
        left_lines0 == slice_to(bullet_items_raw, 3)
        left_lines == IF left_lines0 # <<>> THEN left_lines0
                      ELSE [i \in 1..3 |-> label \o L_item \o int_str(i)]
        line_at(i) == IF Len(left_lines) >= i THEN left_lines[i] ELSE <<>>
        subtitle == IF h3 # <<>> THEN truncate(h3[1], 60) ELSE truncate(JStr(label), 60)
        texts == find_components(sec, {K_text})
        para_given == [i \in 1..Min(3, Len(texts)) |->
                          truncate(best_text_for_component(texts[i], JStr(L_LoremDot)), 52)]
        para_lines == [i \in 1..3 |->
                          IF i <= Len(para_given) THEN para_given[i] ELSE L_LoremConsectetur]
        divider_y == inner_y + 120
        heading_y == divider_y + 48
        heading == truncate(JStr(upper(py_or(get1(sec, "label"), JStr(L_CONTENT)).s)), 36)
        col_y == heading_y + 32
    IN  <<text(P(inner_x + 6), P(inner_y + 22), truncate(JStr(line_at(1)), 22), "small", ""),
          text(P(inner_x + 6), P(inner_y + 40), truncate(JStr(line_at(2)), 22), "small", ""),
          text(P(inner_x + 6), P(inner_y + 58), truncate(JStr(line_at(3)), 22), "small", ""),
          text(P(rx), P(inner_y + 24), upper(subtitle), "h2", ""),
          text(P(rx), P(inner_y + 52), para_lines[1], "small muted", ""),
          text(P(rx), P(inner_y + 70), para_lines[2], "small muted", ""),
          text(P(rx), P(inner_y + 88), para_lines[3], "small muted", ""),
          line(P(inner_x + 10), P(divider_y), P(inner_x + inner_w - 10), P(divider_y), "imgx"),
          text(P(inner_x + 6), P(heading_y), heading, "h2", "")>>
        \o (IF use_two_cols(bullet_items_raw)
            THEN draw_two_cols(inner_x, inner_w, col_y, bullet_items_raw)
            ELSE draw_one_col(inner_x, inner_w, col_y, bullet_items_raw))

draw_steps(x, y, w, sec) ==
    LET inner_x == x + SECTION_PAD
        inner_y == y + 72
        inner_w == w - (2 * SECTION_PAD)
        lst == find_components(sec, {K_list})
        items0 == IF lst # <<>> THEN list_items_from_component(lst[1]) ELSE <<>>
        items == IF items0 # <<>> THEN items0 ELSE [i \in 1..3 |-> L_Step \o int_str(i)]
        shown == slice_to(items, 8)
        row(i) ==
            LET yy == inner_y + ((i - 1) * 36)
            IN  <<rect(P(inner_x), P(yy), P(inner_w), P(30), "sketch-dash", 10),
                  text(P(inner_x + 14), P(yy + 20),
                       int_str(i) \o L_dot \o truncate(JStr(shown[i]), 90), "small", "")>>
    IN  flatten([i \in 1..Len(shown) |-> row(i)])

draw_proof(x, y, w, sec) ==
    LET inner_x == x + SECTION_PAD
        inner_y == y + 72
        inner_w == w - (2 * SECTION_PAD)
        stats == find_components(sec, {K_stats})
        quote == find_components(sec, {K_quote})
    IN  IF stats # <<>>
        THEN <<rect(P(inner_x), P(inner_y), P(inner_w), P(90), "sketch-dash", 12),
               text(P(inner_x + 14), P(inner_y + 24), L_ImpactStatistics, "small", ""),
               text(P(inner_x + 14), P(inner_y + 48),
                    truncate(best_text_for_component(stats[1], JStr(L_ConfirmStats)), 90),
                    "small muted", "")>>
        ELSE IF quote # <<>>
        THEN <<rect(P(inner_x), P(inner_y), P(inner_w), P(70), "sketch-dash", 12),
               text(P(inner_x + 14), P(inner_y + 28),
                    truncate(best_text_for_component(quote[1], JStr(L_ExpertQuote)), 90),
                    "small", "")>>
        ELSE <<rect(P(inner_x), P(inner_y), P(inner_w), P(70), "sketch-dash", 12),
               text(P(inner_x + 14), P(inner_y + 28), L_ProofCaption, "small", "")>>

draw_faq(x, y, w, sec) ==
    LET inner_x == x + SECTION_PAD
        inner_y == y + 72
        inner_w == w - (2 * SECTION_PAD)
        acc == find_components(sec, {K_accordion})
        items0 == IF acc # <<>> THEN list_items_from_component(acc[1]) ELSE <<>>
        items == IF items0 # <<>> THEN items0 ELSE [i \in 1..4 |-> L_FAQitem \o int_str(i)]
        shown == slice_to(items, 10)
        row(i) ==
            LET yy == inner_y + ((i - 1) * 44)
            IN  <<rect(P(inner_x), P(yy), P(inner_w), P(34), "sketch-dash", 10),
                  text(P(inner_x + 14), P(yy + 22), truncate(JStr(shown[i]), 100), "small", "")>>
    IN  flatten([i \in 1..Len(shown) |-> row(i)])

\* the field labels of a form section: the first 6 field-like components, else the three
\* default fields
form_fields(sec) ==
    LET ff == find_components(sec, FIELD_KINDS)
        taken == slice_to(ff, 6)
        fields == [i \in 1..Len(taken) |->
                      truncate(best_text_for_component(taken[i],
                                                       get(taken[i], "label", JStr(L_Field))), 40)]
    IN  IF fields # <<>> THEN fields ELSE <<L_Name, L_Email, L_Message>>

\* for f in fields[:5]
form_rows_drawn(fields) == slice_to(fields, 5)

draw_form(x, y, w, sec, h2, h3) ==
    LET inner_x == x + SECTION_PAD
        inner_y == y + 72
        inner_w == w - (2 * SECTION_PAD)
        shown == form_rows_drawn(form_fields(sec))
        sub == IF h3 # <<>> THEN truncate(h3[1], 80) ELSE L_LoremElit
        row(i) ==
            LET yy == inner_y + 70 + ((i - 1) * 36)
            IN  <<rect(P(inner_x), P(yy), P(inner_w), P(30), "sketch", 8),
                  text(P(inner_x + 12), P(yy + 20), shown[i], "small muted", "")>>
        yy_end == inner_y + 70 + (Len(shown) * 36)
        btn_label == truncate(text_of(first_button(sec), L_SendMessage), 20)
    IN  <<text(P(inner_x) + Half(inner_w), P(inner_y + 26), truncate(JStr(h2), 48), "h2",
               "middle"),
          text(P(inner_x) + Half(inner_w), P(inner_y + 70), sub, "small muted", "middle")>>
        \o flatten([i \in 1..Len(shown) |-> row(i)])
        \o button(P(inner_x + inner_w - 150), P(yy_end + 4), P(150), P(34), btn_label, TRUE)

draw_cta(x, y, w, sec, h2, h3) ==
    LET inner_x == x + SECTION_PAD
        inner_y == y + 72
        inner_w == w - (2 * SECTION_PAD)
        title == truncate(JStr(h2), 50)
        sub == IF h3 # <<>> THEN truncate(h3[1], 90) ELSE L_LoremElit
        btn_label == truncate(text_of(first_button(sec), L_TakeAction), 20)
    IN  <<text(P(inner_x) + Half(inner_w), P(inner_y + 34), title, "h2", "middle"),
          text(P(inner_x) + Half(inner_w), P(inner_y + 60), sub, "small muted", "middle")>>
        \o button(P(inner_x) + Half(inner_w) - P(70), P(inner_y + 90), P(140), P(34),
                  btn_label, FALSE)

\* {"type": "text", "label": "Placeholder content", "placeholder": ""}
placeholder_component ==
    JObj([type |-> JStr(K_text), label |-> JStr(L_PlaceholderContent), placeholder |-> JStr(<<>>)])

\* a faulty variant: every component gets a row (comps instead of comps[:6])
draw_generic_uncapped(x, y, w, sec) ==
    LET inner_x == x + SECTION_PAD
        inner_y == y + 72
        inner_w == w - (2 * SECTION_PAD)
        comps0 == py_or(get(sec, "components", JList(<<>>)), JList(<<>>)).l
        shown == IF comps0 # <<>> THEN comps0 ELSE [i \in 1..3 |-> placeholder_component]
        row(i) ==
            LET cy == inner_y + ((i - 1) * (COMP_H + COMP_GAP))
                lab == best_text_for_component(shown[i], JStr(L_Component))
            IN  <<rect(P(inner_x), P(cy), P(inner_w), P(COMP_H), "sketch-dash", 10),
                  text(P(inner_x + 14), P(cy + 22), truncate(lab, 95), "small", "")>>
    IN  flatten([i \in 1..Len(shown) |-> row(i)])

\* the generic branch of draw_section: one dashed row per component, six at most
draw_generic(x, y, w, sec) ==
    LET inner_x == x + SECTION_PAD
        inner_y == y + 72
        inner_w == w - (2 * SECTION_PAD)
        comps0 == py_or(get(sec, "components", JList(<<>>)), JList(<<>>)).l
        comps == IF comps0 # <<>> THEN comps0 ELSE [i \in 1..3 |-> placeholder_component]
        shown == slice_to(comps, 6)
        row(i) ==
            LET cy == inner_y + ((i - 1) * (COMP_H + COMP_GAP))
                lab == best_text_for_component(shown[i], JStr(L_Component))
            IN  <<rect(P(inner_x), P(cy), P(inner_w), P(COMP_H), "sketch-dash", 10),
                  text(P(inner_x + 14), P(cy + 22), truncate(lab, 95), "small", "")>>
    IN  flatten([i \in 1..Len(shown) |-> row(i)])

DRAWN_AS_CTA == {K_cta, K_call_to_action, K_cta_section, K_footer_cta, K_footerUcta,
                 K_footer_call_to_action, K_footerUcallUtoUaction}

\* the elements of the branch of draw_section that st selects
draw_body(st, x, y, w, sec, label, h2, h3) ==
    CASE st = K_hero -> draw_hero(x, y, w, sec, h2, h3)
      [] st = K_features -> draw_features(x, y, w, sec, label, h3)
      [] st = K_content -> draw_content(x, y, w, sec, label, h3)
      [] st = K_steps -> draw_steps(x, y, w, sec)
      [] st = K_proof -> draw_proof(x, y, w, sec)
      [] st = K_faq -> draw_faq(x, y, w, sec)
      [] st = K_form -> draw_form(x, y, w, sec, h2, h3)
      [] st \in DRAWN_AS_CTA -> draw_cta(x, y, w, sec, h2, h3)
      [] OTHER -> draw_generic(x, y, w, sec)

\* the value every branch of draw_section returns: the next section's top offset
\* a faulty variant: the next offset without the gap
next_cursor_no_gap(st, y, h) == y + h

\* return y + h + SECTION_GAP
next_cursor(st, y, h) == y + h + SECTION_GAP

\* draw_section(svg, x, y, w, sec, idx): the buffer after the call, the value returned, and
\* whether the call raised (the buffer then holds what was appended before the raise)
draw_section(svg, x, y, w, sec, idx) ==
    LET st == canon(get1(sec, "type"))
        sec_id == get(sec, "id", JStr(L_section_dash \o int_str(idx + 1)))
        label == section_label(sec, st)
        h2 == section_h2(sec, label)
        h3 == section_h3(sec)
        h == section_height_for(sec)
        frame == <<rect(P(x), P(y), P(w), P(h), "sketch", 14),
                   text(P(x + 16), P(y + 28), h2, "h2", "")>>
        overlay == IF SHOW_SEMANTIC_OVERLAY
                   THEN <<text(P(x + 16), P(y + 44), overlay_text(sec), "overlay", "")>>
                   ELSE <<>>
        caption == <<text(P(x + 16), P(y + 60), st \o L_id \o py_str(sec_id), "small muted", "")>>
    IN  IF SHOW_SEMANTIC_OVERLAY /\ overlay_raises(sec)
        THEN [svg |-> svg \o frame, ret |-> y, raised |-> TRUE]
        ELSE [svg |-> svg \o frame \o overlay \o caption
                          \o draw_body(st, x, y, w, sec, label, h2, h3),
              ret |-> next_cursor(st, y, h), raised |-> FALSE]

(* ------------------------------------------------------------------ *)
(* Input documents                                                    *)
(* ------------------------------------------------------------------ *)
\* the largest item count of a list-like component
MaxItems == 13
\* the largest number of field-like (or unknown) components of a section
MaxFields == 7
\* a paragraph count large enough for the paragraphs to outgrow the bullet block
ManyTexts == 11

G_Hero == <<"H", "e", "r", "o">>
G_FAQ == <<" ", "F", "A", "Q", " ">>
G_FooterCTA == <<"F", "o", "o", "t", "e", "r", " ", "C", "T", "A">>
G_bogus == <<"b", "o", "g", "u", "s", "-", "t", "y", "p", "e">>
G_widget == <<"w", "i", "d", "g", "e", "t">>
G_JoinNow == <<"J", "o", "i", "n", " ", "n", "o", "w">>
G_Tagline == <<"A", " ", " ", " ", "s", "h", "o", "r", "t", " ", " ", "t", "a", "g", "l", "i",
    "n", "e">>
G_Welcome == <<"W", "e", "l", "c", "o", "m", "e">>
G_About == <<"A", "b", "o", "u", "t", " ", "u", "s">>
G_ContactUs == <<"C", "o", "n", "t", "a", "c", "t", " ", "U", "s">>
G_sec_id == <<"s", "1">>
G_Grow == <<"G", "r", "o", "w", " ", "<", "f", "a", "s", "t", ">", " ", "&", " ", "\"", "s",
    "a", "f", "e", "\"">>
G_fact == <<"f", "a", "c", "t">>

\* a dict built from the keys in keys of the record all
only(all, keys) == [k \in (DOMAIN all \cap keys) |-> all[k]]

item_value(i) == JStr(<<"p">> \o int_str(i))
item_list(n) == [i \in 1..n |-> item_value(i)]
\* n items, the b-th of which (when 1 <= b <= n) is blank
item_list_blank(n, b) == [i \in 1..n |-> IF i = b THEN JStr(<<" ">>) ELSE item_value(i)]

comp(kind, label) == JObj([type |-> JStr(kind), label |-> JStr(label)])

\* a list-like component of the given kind holding n entries: in "items", in "fields" (with
\* an empty "items"), or in "items" with the first entry blank
list_comp(kind, n, how) ==
    CASE how = "items" ->
           JObj([type |-> JStr(kind), label |-> JStr(kind), items |-> JList(item_list(n))])
      [] how = "fields" ->
           JObj([type |-> JStr(kind), label |-> JStr(kind), items |-> JList(<<>>),
                 fields |-> JList(item_list(n))])
      [] how = "blank" ->
           JObj([type |-> JStr(kind), label |-> JStr(kind),
                 items |-> JList(item_list_blank(n, 1)), fields |-> JList(item_list(MaxItems))])

text_comp(i) ==
    JObj([type |-> JStr(K_text), label |-> JStr(G_About), placeholder |-> JStr(G_Tagline)])
button_comp == JObj([type |-> JStr(K_button), label |-> JStr(G_JoinNow)])
field_comp(i) ==
    JObj([type |-> JStr(IF i % 2 = 1 THEN K_formUfield ELSE K_input),
          label |-> JStr(<<"f">> \o int_str(i))])
unknown_comp(i) == JObj([type |-> JStr(G_widget), placeholder |-> JStr(<<"w">> \o int_str(i))])

ListComponentLists ==
    {<<list_comp(kind, n, how)>> :
        kind \in {K_list, K_accordion, K_cards}, n \in 0..MaxItems,
        how \in {"items", "fields", "blank"}}

OtherComponentLists ==
    {[i \in 1..k |-> field_comp(i)] : k \in 0..MaxFields}
    \cup {[i \in 1..k |-> unknown_comp(i)] : k \in 1..MaxFields}
    \cup {<<comp(K_quote, G_Welcome)>>, <<comp(K_stats, G_Welcome)>>,
          <<comp(K_quote, G_Welcome), comp(K_stats, G_About)>>,
          <<comp(K_stats, G_About), comp(K_quote, G_Welcome)>>,
          <<button_comp, text_comp(1)>>}
    \cup {[i \in 1..k |-> text_comp(i)] \o <<list_comp(K_list, n, "items")>> :
            k \in {1, ManyTexts}, n \in {0, MaxItems}}

TypeTags ==
    {K_hero, G_Hero, K_features, K_content, K_faq, G_FAQ, K_proof, K_steps, K_form, K_cta,
     K_call_to_action, K_footerUcta, G_FooterCTA, K_cta_section, K_footer_call_to_action,
     K_gallery, K_section, G_bogus}

semantic_obj ==
    JObj([intent |-> JStr(G_Grow), supporting_facts |-> JList(<<JStr(G_fact), JStr(G_fact)>>)])

\* every key a section can carry, for a section of the given tag and components
full_section(tag, comps) ==
    [type |-> JStr(tag), id |-> JStr(G_sec_id), label |-> JStr(G_About), h2 |-> JStr(G_Grow),
     h3 |-> JList(<<JStr(G_Tagline), JStr(G_Welcome)>>), components |-> JList(comps),
     semantic |-> semantic_obj]

plain_section(tag, comps) == JObj(only(full_section(tag, comps), {"type", "components"}))

SectionInputs ==
    {plain_section(tag, comps) : tag \in TypeTags, comps \in ListComponentLists}
    \cup {plain_section(tag, comps) : tag \in TypeTags, comps \in OtherComponentLists}
    \cup {JObj(full_section(tag, comps)) : tag \in TypeTags,
            comps \in {<<>>, <<button_comp, text_comp(1)>>}}
    \cup {JObj(only(full_section(K_section, <<>>), keys)) :
            keys \in {{}, {"components"}, {"label"}, {"type", "h3", "label"}}}

(* ------------------------------------------------------------------ *)
(* Page rendering: literals and geometry of render_page_svg           *)
(* ------------------------------------------------------------------ *)
L_LogoHere == <<"L", "o", "g", "o", " ", "H", "e", "r", "e">>
L_NewsletterSignUp == <<"N", "e", "w", "s", "l", "e", "t", "t", "e", "r", " ", "S", "i", "g",
    "n", " ", "U", "p">>
L_ActionButton == <<"A", "c", "t", "i", "o", "n", " ", "B", "u", "t", "t", "o", "n">>
L_Home == <<"H", "o", "m", "e">>
L_About == <<"A", "b", "o", "u", "t">>
L_News == <<"N", "e", "w", "s">>
L_ReadMe == <<"R", "e", "a", "d", " ", "M", "e">>
L_Rendered == <<"R", "e", "n", "d", "e", "r", "e", "d", ":", " ">>
L_MoreNotShown == <<"ELLIPSIS", " ", "(", "m", "o", "r", "e", " ", "s", "e", "c", "t", "i",
    "o", "n", "s", " ", "n", "o", "t", " ", "s", "h", "o", "w", "n", ")">>
L_Page == <<"P", "a", "g", "e">>
L_slash == <<"/">>
L_Hero == <<"H", "e", "r", "o">>
L_auto_hero == <<"a", "u", "t", "o", "-", "h", "e", "r", "o">>
L_Objectives == <<"O", "b", "j", "e", "c", "t", "i", "v", "e", "s">>
L_Resources == <<"R", "e", "s", "o", "u", "r", "c", "e", "s">>
L_Advocacy == <<"A", "d", "v", "o", "c", "a", "c", "y">>
L_Contact == <<"C", "o", "n", "t", "a", "c", "t">>
L_date == <<"2", "0", "2", "6", "-", "0", "1", "-", "0", "1", " ">>
G_Services == <<"S", "e", "r", "v", "i", "c", "e", "s">>
G_about_slug == <<"/", "a", "b", "o", "u", "t">>

frame_x == MARGIN
frame_y == MARGIN
frame_w == CANVAS_W - (2 * MARGIN)
frame_h == CANVAS_H - (2 * MARGIN)
hx == frame_x + GUTTER
hy == frame_y + GUTTER
hw == frame_w - (2 * GUTTER)
cta_x == hx + hw - HEADER_CTA_W
cta_y == hy + 6
content_x == frame_x + GUTTER
content_w == frame_w - (2 * GUTTER)
first_cursor_y == hy + HEADER_H + 8
footer_y == frame_y + frame_h - FOOTER_DARK_H - GUTTER
band_y == footer_y - NEWSLETTER_BAND_H - GUTTER
content_bottom_limit == band_y - SECTION_GAP

\* The nav cache is None (JNull) until the first resolution
\* A file is a JSON value, or NoFile when open() or json.load() fails
NoFile == [t |-> "nofile"]

DEFAULT_NAV == <<JStr(L_Home), JStr(L_About), JStr(L_Objectives), JStr(L_Resources),
                 JStr(L_Advocacy), JStr(L_Contact)>>

\* tier 1: the value assigned to _NAV_CACHE from sitemap.json, JNull when none is assigned
nav_tier_sitemap(sitemap) ==
    IF ~IsObj(sitemap) THEN JNull
    ELSE LET nav == get1(sitemap, "primary_nav")
         IN  IF IsList(nav) /\ nav.l # <<>>
             THEN JList([i \in 1..Len(nonblank_strs(nav.l)) |-> JStr(nonblank_strs(nav.l)[i])])
             ELSE JNull

\* tier 2: the labels of the pages of the input document, JNull when there are none or the
\* document cannot be read
nav_tier_pages(input) ==
    IF ~IsObj(input) THEN JNull
    ELSE LET pages == get(input, "pages", JList(<<>>))
             dicts == IF IsList(pages)
                      THEN SelectSeq(pages.l, LAMBDA p : IsObj(p) /\ truthy(get1(p, "page")))
                      ELSE <<>>
             labels == [i \in 1..Len(dicts) |-> get1(dicts[i], "page")]
         IN  IF IsList(pages) /\ labels # <<>> THEN JList(labels) ELSE JNull

\* a faulty variant: the cache is not consulted, every call resolves anew
nav_from_page_labels_uncached(cache, sitemap, input) ==
    LET t1 == nav_tier_sitemap(sitemap)
        t2 == nav_tier_pages(input)
    IN  IF t1 # JNull /\ t1.l # <<>> THEN t1
        ELSE IF t2 # JNull THEN t2
        ELSE JList(DEFAULT_NAV)

\* a faulty variant: the list read from the sitemap is returned even when it is empty
\* after the blank entries are dropped
nav_from_page_labels_unchecked(cache, sitemap, input) ==
    IF cache # JNull THEN cache
    ELSE LET t1 == nav_tier_sitemap(sitemap)
             t2 == nav_tier_pages(input)
         IN  IF t1 # JNull THEN t1
             ELSE IF t2 # JNull THEN t2
             ELSE JList(DEFAULT_NAV)

\* nav_from_page_labels(page_obj) run to completion: the cache afterwards (also the value
\* returned)
nav_from_page_labels(cache, sitemap, input) ==
    IF cache # JNull THEN cache
    ELSE LET t1 == nav_tier_sitemap(sitemap)
             t2 == nav_tier_pages(input)
         IN  IF t1 # JNull /\ t1.l # <<>> THEN t1
             ELSE IF t2 # JNull THEN t2
             ELSE JList(DEFAULT_NAV)

RECURSIVE place_nav_skipping(_, _)
\* a faulty variant of the nav loop: a label that would collide is skipped and the loop
\* goes on (continue instead of break)
place_nav_skipping(items, cursor) ==
    IF items = <<>> THEN <<>>
    ELSE LET item == items[Len(items)]
             w_est == approx_text_width(item)
             x == cursor - w_est
         IN  IF x < (hx + LOGO_W + 22)
             THEN place_nav_skipping(SubSeq(items, 1, Len(items) - 1), cursor)
             ELSE <<text(P(x), P(hy + 28), item.s, "nav-link", "")>>
                  \o place_nav_skipping(SubSeq(items, 1, Len(items) - 1), x - NAV_GAP)

RECURSIVE place_nav(_, _)
\* the header nav loop over the items still to place (last one first), from cursor
place_nav(items, cursor) ==
    IF items = <<>> THEN <<>>
    ELSE LET item == items[Len(items)]
             w_est == approx_text_width(item)
             x == cursor - w_est
         IN  IF x < (hx + LOGO_W + 22) THEN <<>>
             ELSE <<text(P(x), P(hy + 28), item.s, "nav-link", "")>>
                  \o place_nav(SubSeq(items, 1, Len(items) - 1), x - NAV_GAP)

page_name_of(page) == get(page, "page", JStr(L_Page))
layout_of(page) == get(page, "layout", EmptyObj)
\* h1 = layout.get("h1", "").strip() or page_name
h1_of(page) ==
    LET s == strip(get(layout_of(page), "h1", JStr(<<>>)).s)
    IN  IF s # <<>> THEN JStr(s) ELSE page_name_of(page)
\* sections = layout.get("sections", []) or []
sections_of(page) == py_or(get(layout_of(page), "sections", JList(<<>>)), JList(<<>>)).l

\* everything render_page_svg appends before the layout area: canvas, frame, logo, CTA, nav
header_elements(page, nav_items) ==
    <<[kind |-> "svg", w |-> CANVAS_W, h |-> CANVAS_H],
      [kind |-> "style"],
      [kind |-> "rect", x |-> 0, y |-> 0, w |-> P(CANVAS_W), h |-> P(CANVAS_H),
       cls |-> "page-bg", rx |-> 0],
      [kind |-> "rect", x |-> P(frame_x), y |-> P(frame_y), w |-> P(frame_w), h |-> P(frame_h),
       cls |-> "page-frame", rx |-> 0],
      text(P(frame_x), P(frame_y - 10),
           py_str(page_name_of(page)) \o <<" ", "(">> \o py_str(get(page, "slug", JStr(L_slash)))
               \o <<")">>, "meta", ""),
      rect(P(hx), P(hy), P(LOGO_W), P(LOGO_H), "sketch", 10),
      line(P(hx + 8), P(hy + 8), P(hx + LOGO_W - 8), P(hy + LOGO_H - 8), "imgx"),
      line(P(hx + LOGO_W - 8), P(hy + 8), P(hx + 8), P(hy + LOGO_H - 8), "imgx"),
      text(P(hx + 18), P(hy + 28), L_LogoHere, "small", "")>>
    \o button(P(cta_x), P(cta_y), P(HEADER_CTA_W), P(HEADER_CTA_H), L_TakeAction, FALSE)
    \o place_nav(nav_items, cta_x - NAV_RIGHT_GAP)

\* the synthesized hero of a page whose sections do not start with one
hero_sec(page) ==
    JObj([id |-> JStr(L_auto_hero), type |-> JStr(K_hero), label |-> JStr(L_Hero),
          h2 |-> h1_of(page), components |-> JList(<<>>)])

\* sections and canon(sections[0].get("type")) == "hero"
starts_with_hero(sections) == sections # <<>> /\ canon(get1(sections[1], "type")) = K_hero

\* a faulty variant: the walk always skips the first supplied section
start_idx_always_one(sections) == 1

\* start_idx of the walk (0-based, as in the source)
start_idx_for(sections) == IF starts_with_hero(sections) THEN 1 ELSE 0

\* a faulty variant: only the top offset of the section is tested against the limit
fits_top_only(y, next_h) == ~(y > content_bottom_limit)

\* the loop's test for the section at the cursor: it is drawn unless
\* cursor_y + next_h > content_bottom_limit
fits(y, next_h) == ~(y + next_h > content_bottom_limit)

\* a faulty variant: the index test is off by one
caption_needed_off_by_one(i, sections) == i <= Len(sections)

\* if idx < len(sections): the omission caption is appended
caption_needed(i, sections) == i < Len(sections)

\* strftime("%Y-%m-%d %H:%M") of the minute `now` of the day the run happens on
two_digits(n) == IF n < 10 THEN <<"0">> \o int_str(n) ELSE int_str(n)
strftime_minute(now) == L_date \o two_digits(now \div 60) \o <<":">> \o two_digits(now % 60)

FOOTER_LINKS == <<L_Home, L_About, L_News, L_ReadMe>>

RECURSIVE sum_widths(_)
sum_widths(links) ==
    IF links = <<>> THEN 0 ELSE approx_text_width(JStr(Head(links))) + sum_widths(Tail(links))

RECURSIVE footer_links(_, _)
footer_links(links, x) ==
    IF links = <<>> THEN <<>>
    ELSE <<text(x, P(footer_y + 92), Head(links), "footer-link", "")>>
         \o footer_links(Tail(links), x + P(approx_text_width(JStr(Head(links))) + NAV_GAP))

\* everything render_page_svg appends after the walk: caption, newsletter band, footer, stamp
closing_elements(sections, i, y, now) ==
    LET input_w == 340
        input_h == 38
        ix == P(content_x) + Half(content_w) - Half(input_w) - P(80)
        iy == band_y + 130
        flw == 140
        flh == 44
        fx == P(content_x) + Half(content_w) - Half(flw)
        fy == footer_y + 18
        total_w == sum_widths(FOOTER_LINKS) + ((Len(FOOTER_LINKS) - 1) * NAV_GAP)
        start_x == P(content_x) + Half(content_w) - Half(total_w)
    IN  (IF caption_needed(i, sections)
         THEN <<text(P(content_x), P(y + 18), L_MoreNotShown, "small", "")>>
         ELSE <<>>)
        \o <<[kind |-> "rect", x |-> P(content_x), y |-> P(band_y), w |-> P(content_w),
              h |-> P(NEWSLETTER_BAND_H), cls |-> "panel-light", rx |-> 14],
             text(P(content_x) + Half(content_w), P(band_y + 70), L_NewsletterSignUp, "h1",
                  "middle"),
             text(P(content_x) + Half(content_w), P(band_y + 98), L_LoremElit, "small muted",
                  "middle"),
             rect(ix, P(iy), P(input_w), P(input_h), "sketch", 8)>>
        \o button(ix + P(input_w + 18), P(iy), P(150), P(input_h), L_ActionButton, TRUE)
        \o <<[kind |-> "rect", x |-> P(content_x), y |-> P(footer_y), w |-> P(content_w),
              h |-> P(FOOTER_DARK_H), cls |-> "panel-dark", rx |-> 14],
             rect(fx, P(fy), P(flw), P(flh), "sketch", 10),
             line(fx + P(8), P(fy + 8), fx + P(flw - 8), P(fy + flh - 8), "imgx"),
             line(fx + P(flw - 8), P(fy + 8), fx + P(8), P(fy + flh - 8), "imgx")>>
        \o footer_links(FOOTER_LINKS, start_x)
        \o <<text(P(frame_x + frame_w - 260), P(frame_y + frame_h + 18),
                  L_Rendered \o strftime_minute(now), "small", ""),
             [kind |-> "svg_close"]>>

\* the one element of a singleton set
the(S) == CHOOSE x \in S : TRUE

RECURSIVE render_walk(_, _, _, _)
RECURSIVE walk_on(_, _, _, _)
\* the walk of render_page_svg over the sections from index i, run to its end
render_walk(buffer, sections, i, y) ==
    IF ~(i < Len(sections)) THEN [svg |-> buffer, i |-> i, y |-> y, raised |-> FALSE]
    ELSE IF ~fits(y, section_height_for(sections[i + 1]))
    THEN [svg |-> buffer, i |-> i, y |-> y, raised |-> FALSE]
    ELSE the({walk_on(r, sections, i, y) :
                r \in {draw_section(buffer, content_x, y, content_w, sections[i + 1], i)}})

\* the walk after draw_section has returned r for the section of index i, or raised
walk_on(r, sections, i, y) ==
    IF r.raised THEN [svg |-> r.svg, i |-> i, y |-> y, raised |-> TRUE]
    ELSE render_walk(r.svg, sections, i + 1, r.ret)

\* the document once the walk has ended: the closing elements are appended
page_closed(sections, walked, clock) ==
    IF walked.raised THEN [svg |-> walked.svg, raised |-> TRUE]
    ELSE [svg |-> walked.svg \o closing_elements(sections, walked.i, walked.y, clock),
          raised |-> FALSE]

\* the document once the leading hero is drawn (top): the walk, then the closing elements
page_below_hero(sections, top, clock) ==
    IF top.raised THEN [svg |-> top.svg, raised |-> TRUE]
    ELSE the({page_closed(sections, walked, clock) :
                walked \in {render_walk(top.svg, sections, start_idx_for(sections), top.ret)}})

\* a faulty variant: the header carries the clock reading too
render_page_svg_dated(page, nav_items, clock) ==
    LET sections == sections_of(page)
        first == IF starts_with_hero(sections) THEN sections[1] ELSE hero_sec(page)
        dated == header_elements(page, nav_items)
                     \o <<text(P(frame_x), P(frame_y), strftime_minute(clock), "meta", "")>>
    IN  the({page_below_hero(sections, top, clock) :
                top \in {draw_section(dated, content_x, first_cursor_y, content_w, first, 0)}})

\* render_page_svg(page_obj) as one call, the nav list being resolved already and the clock
\* reading now: the document returned, or the elements appended before the exception
render_page_svg(page, nav_items, clock) ==
    LET sections == sections_of(page)
        first == IF starts_with_hero(sections) THEN sections[1] ELSE hero_sec(page)
    IN  the({page_below_hero(sections, top, clock) :
                top \in {draw_section(header_elements(page, nav_items), content_x,
                                      first_cursor_y, content_w, first, 0)}})

(* ------------------------------------------------------------------ *)
(* main(): file names                                                 *)
(* ------------------------------------------------------------------ *)
L_page == <<"p", "a", "g", "e">>
L_home == <<"h", "o", "m", "e">>
L_dot_svg == <<".", "s", "v", "g">>

\* the characters of the class [a-z0-9\-]
SAFE_CHARS == {LOWER[i] : i \in 1..26} \cup {DIGITS[i] : i \in 1..10} \cup {"-"}

\* c is in the character class [chars], or in [^chars] when negated
in_class(c, chars, negated) == (c \in chars) # negated

RECURSIVE sub_runs(_, _, _)
\* re.sub(<class>+, "-", s) for the class [chars], or [^chars] when negated
sub_runs(s, chars, negated) ==
    IF s = <<>> THEN <<>>
    ELSE IF ~in_class(Head(s), chars, negated)
    THEN <<Head(s)>> \o sub_runs(Tail(s), chars, negated)
    ELSE IF Len(s) >= 2 /\ in_class(s[2], chars, negated)
    THEN sub_runs(Tail(s), chars, negated)
    ELSE <<"-">> \o sub_runs(Tail(s), chars, negated)

RECURSIVE strip_dashes(_)
\* s.strip("-")
strip_dashes(s) ==
    IF s = <<>> THEN <<>>
    ELSE IF Head(s) = "-" THEN strip_dashes(Tail(s))
    ELSE IF s[Len(s)] = "-" THEN strip_dashes(SubSeq(s, 1, Len(s) - 1))
    ELSE s

\* a faulty variant: every page gets the same name
safe_filename_constant(s) == L_page

\* safe_filename(s), s a str
safe_filename(s) ==
    LET s1 == lower(strip(s))
        s2 == sub_runs(s1, SAFE_CHARS, TRUE)
        s3 == strip_dashes(sub_runs(s2, {"-"}, FALSE))
    IN  IF s3 # <<>> THEN s3 ELSE L_page

\* a faulty variant: the root page keeps the name derived from its page name
out_name_no_home(p) == safe_filename(get(p, "page", JStr(L_page)).s) \o L_dot_svg

\* the file name main() writes page p to, inside OUTPUT_DIR
out_name(p) ==
    LET page_name == get(p, "page", JStr(L_page))
        slug == get(p, "slug", JStr(L_slash))
        fname == safe_filename(page_name.s)
    IN  (IF slug = JStr(L_slash) THEN L_home ELSE fname) \o L_dot_svg

\* the page loop of main() raises before rendering p: p.get on a page that is no object,
\* s.strip() on a page name that is no str
name_raises(p) == ~IsObj(p) \/ ~IsStr(get(p, "page", JStr(L_page)))

\* the sitemap.json files a run can find: none, or one with a primary_nav (one entry blank)
SitemapInputs ==
    {NoFile,
     JObj([primary_nav |-> JList(<<JStr(L_Home), JStr(<<" ">>), JStr(G_Services),
                                   JStr(L_Contact)>>)])}

\* the longest section sequence of a page
MaxSections == 3
\* the number of minutes the clock can advance during a run
MaxClock == 1

SectionPalette ==
    {JObj(full_section(K_hero, <<button_comp, text_comp(1)>>)),
     plain_section(K_faq, <<list_comp(K_accordion, 10, "items")>>),
     plain_section(G_FAQ, <<list_comp(K_accordion, 9, "items")>>),
     plain_section(K_steps, <<list_comp(K_list, 8, "items")>>),
     JObj(full_section(K_cta, <<button_comp>>))}

page(h1, sections) ==
    JObj([page |-> JStr(G_About), slug |-> JStr(G_about_slug),
          layout |-> JObj([h1 |-> JStr(h1), sections |-> JList(sections)])])

PageInputs ==
    {page(h1, sections) :
        h1 \in {G_ContactUs, <<" ">>},
        sections \in UNION {[1..k -> SectionPalette] : k \in 0..MaxSections}}

(* ------------------------------------------------------------------ *)
(* State                                                              *)
(* ------------------------------------------------------------------ *)
VARIABLES
    files,      \* the files of the run folder: [sitemap, input]
    NAV_CACHE,  \* the module global _NAV_CACHE
    now,        \* the wall clock, in minutes
    page_obj,   \* render_page_svg: its argument
    pc,         \* render_page_svg: where it stands
    svg,        \* render_page_svg: the buffer of elements appended so far
    cursor_y,   \* render_page_svg: top offset of the next section
    idx,        \* render_page_svg: index (0-based) of the next section of the walk
    calls,      \* history: the draw_section calls made so far, [sec, idx, y, supplied]
    sec,        \* a section handed to section_height_for and draw_section on its own
    sec_pc,     \* where the stand-alone sizing and drawing of sec stands
    height,     \* what section_height_for(sec) returned
    out,        \* what draw_section([], content_x, first_cursor_y, content_w, sec, 0) did
    t_in,       \* truncate: its argument text
    t_n,        \* truncate: its argument max_len
    t_out,      \* truncate: what it returned
    t_pc,       \* where the stand-alone call of truncate stands
    main_pc,    \* main of render_wireframes.py: where it stands
    main_i,     \* main: the number of pages handled so far
    fs_dir,     \* whether the folder OUTPUT_DIR exists
    fs_out,     \* the files of OUTPUT_DIR: file name -> [page, doc], page the index written last
    renders,    \* history: the render_page_svg calls of main, [page, nav, at, doc, path]
    step,       \* build_pipeline.py: the number of steps started so far
    pipe_pc,    \* build_pipeline.py: where it stands
    returncodes,\* history: the command and the return code of each step run so far
    exit_code,  \* build_pipeline.py: the argument of sys.exit, once called
    stdout,     \* build_pipeline.py: the lines printed so far
    api_key,    \* main.py: whether OPENAI_API_KEY is set
    llm_pc,     \* call_llm_json: where it stands
    posts,      \* history: the endpoints requests.post was called with
    replies,    \* history: what each of these calls received
    llm_ret,    \* call_llm_json: what it returned
    wireframes, \* the file wireframes.json
    semantics,  \* the file semantic.json
    enriched,   \* the file wireframes.enriched.json
    en_pc,      \* where the run of enrich_wireframes.py, then verify_semantics.py, stands
    missing,    \* verify_semantics.py: its list missing
    li_c,       \* list_items_from_component: its argument c
    li_out,     \* list_items_from_component: what it returned
    li_pc,      \* where the stand-alone call of list_items_from_component stands
    th_pc,      \* two threads in nav_from_page_labels: where each stands
    th_ret      \* what nav_from_page_labels returned to each thread

vars == <<files, NAV_CACHE, now, page_obj, pc, svg, cursor_y, idx, calls, sec, sec_pc, height, out,
          t_in, t_n, t_out, t_pc, main_pc, main_i, fs_dir, fs_out, renders,
          step, pipe_pc, returncodes, exit_code, stdout,
          api_key, llm_pc, posts, replies, llm_ret,
          wireframes, semantics, enriched, en_pc, missing,
          li_c, li_out, li_pc, th_pc, th_ret>>
render_vars == <<files, NAV_CACHE, now, page_obj, pc, svg, cursor_y, idx, calls>>
section_vars == <<sec, sec_pc, height, out>>
text_vars == <<t_in, t_n, t_out, t_pc>>
main_vars == <<main_pc, main_i, fs_dir, fs_out, renders>>
pipe_vars == <<step, pipe_pc, returncodes, exit_code, stdout>>
llm_vars == <<api_key, llm_pc, posts, replies, llm_ret>>
enrich_vars == <<wireframes, semantics, enriched, en_pc, missing>>
items_vars == <<li_c, li_out, li_pc>>
thread_vars == <<th_pc, th_ret>>
more_vars == <<llm_vars, enrich_vars, items_vars, thread_vars>>
other_vars == <<text_vars, main_vars, pipe_vars, more_vars>>
base_vars == <<render_vars, section_vars, text_vars, main_vars, pipe_vars>>

no_output == [svg |-> <<>>, ret |-> 0, raised |-> FALSE]

RenderIdle ==
    /\ files = [sitemap |-> NoFile, input |-> NoFile]
    /\ NAV_CACHE = JNull
    /\ now = 0
    /\ page_obj = EmptyObj
    /\ pc = "idle"
    /\ svg = <<>>
    /\ cursor_y = 0
    /\ idx = 0
    /\ calls = <<>>

SectionIdle ==
    /\ sec = EmptyObj
    /\ sec_pc = "idle"
    /\ height = 0
    /\ out = no_output

TextIdle ==
    /\ t_in = JNull
    /\ t_n = 0
    /\ t_out = <<>>
    /\ t_pc = "idle"

MainIdle ==
    /\ main_pc = "idle"
    /\ main_i = 0
    /\ fs_dir = FALSE
    /\ fs_out = <<>>
    /\ renders = <<>>

PipeIdle ==
    /\ step = 0
    /\ pipe_pc = "idle"
    /\ returncodes = <<>>
    /\ exit_code = 0
    /\ stdout = <<>>

LLMIdle ==
    /\ api_key = FALSE
    /\ llm_pc = "idle"
    /\ posts = <<>>
    /\ replies = <<>>
    /\ llm_ret = JNull

EnrichIdle ==
    /\ wireframes = NoFile
    /\ semantics = NoFile
    /\ enriched = NoFile
    /\ en_pc = "idle"
    /\ missing = <<>>

ItemsIdle ==
    /\ li_c = EmptyObj
    /\ li_out = <<>>
    /\ li_pc = "idle"

Threads == {1, 2}

ThreadsIdle ==
    /\ th_pc = [t \in Threads |-> "idle"]
    /\ th_ret = [t \in Threads |-> JNull]

MoreIdle == LLMIdle /\ EnrichIdle /\ ItemsIdle /\ ThreadsIdle

OtherIdle == TextIdle /\ MainIdle /\ PipeIdle /\ MoreIdle

(* ------------------------------------------------------------------ *)
(* render_page_svg(page_obj), step by step                            *)
(* ------------------------------------------------------------------ *)
Init ==
    /\ page_obj \in PageInputs
    /\ \E sm \in SitemapInputs :
          files = [sitemap |-> sm, input |-> JObj([pages |-> JList(<<page_obj>>)])]
    /\ NAV_CACHE = JNull
    /\ now = 0
    /\ pc = "begin"
    /\ svg = <<>>
    /\ cursor_y = 0
    /\ idx = 0
    /\ calls = <<>>
    /\ SectionIdle
    /\ OtherIdle

\* canvas, frame, header, resolved nav; the layout area starts below the header
RenderHeader ==
    /\ pc = "begin"
    /\ NAV_CACHE' = nav_from_page_labels(NAV_CACHE, files.sitemap, files.input)
    /\ svg' = svg \o header_elements(page_obj, NAV_CACHE'.l)
    /\ cursor_y' = first_cursor_y
    /\ pc' = "hero"
    /\ UNCHANGED <<files, now, page_obj, idx, calls>>
    /\ UNCHANGED section_vars
    /\ UNCHANGED other_vars

\* "Ensure a hero exists": the first section when it is a hero, else a synthesized one
EnsureHero ==
    /\ pc = "hero"
    /\ \E sections \in {sections_of(page_obj)} :
       \E given \in {starts_with_hero(sections)} :
       \E s \in {IF given THEN sections[1] ELSE hero_sec(page_obj)} :
       \E r \in {draw_section(svg, content_x, cursor_y, content_w, s, 0)} :
           /\ svg' = r.svg
           /\ calls' = Append(calls, [sec |-> s, idx |-> 0, y |-> cursor_y, supplied |-> given])
           /\ cursor_y' = r.ret
           /\ idx' = start_idx_for(sections)
           /\ pc' = IF r.raised THEN "raised" ELSE "walk"
    /\ UNCHANGED <<files, NAV_CACHE, now, page_obj>>
    /\ UNCHANGED section_vars
    /\ UNCHANGED other_vars

\* one iteration of the walk whose section fits: it is drawn
WalkDraw ==
    /\ pc = "walk"
    /\ idx < Len(sections_of(page_obj))
    /\ \E s \in {sections_of(page_obj)[idx + 1]} :
       \E next_h \in {section_height_for(s)} :
       \E r \in {draw_section(svg, content_x, cursor_y, content_w, s, idx)} :
           /\ fits(cursor_y, next_h)
           /\ svg' = r.svg
           /\ calls' = Append(calls, [sec |-> s, idx |-> idx, y |-> cursor_y, supplied |-> TRUE])
           /\ cursor_y' = r.ret
           /\ idx' = IF r.raised THEN idx ELSE idx + 1
           /\ pc' = IF r.raised THEN "raised" ELSE "walk"
    /\ UNCHANGED <<files, NAV_CACHE, now, page_obj>>
    /\ UNCHANGED section_vars
    /\ UNCHANGED other_vars

\* a faulty variant of the iteration below: the section that does not fit is skipped and
\* the walk goes on (continue instead of break)
WalkSkip ==
    /\ pc = "walk"
    /\ idx < Len(sections_of(page_obj))
    /\ ~fits(cursor_y, section_height_for(sections_of(page_obj)[idx + 1]))
    /\ idx' = idx + 1
    /\ UNCHANGED <<files, NAV_CACHE, now, page_obj, pc, svg, cursor_y, calls>>
    /\ UNCHANGED section_vars
    /\ UNCHANGED other_vars

\* the iteration of the walk whose section does not fit: break
WalkStop ==
    /\ pc = "walk"
    /\ idx < Len(sections_of(page_obj))
    /\ ~fits(cursor_y, section_height_for(sections_of(page_obj)[idx + 1]))
    /\ pc' = "close"
    /\ UNCHANGED <<files, NAV_CACHE, now, page_obj, svg, cursor_y, idx, calls>>
    /\ UNCHANGED section_vars
    /\ UNCHANGED other_vars

\* the walk has passed the last section
WalkEnd ==
    /\ pc = "walk"
    /\ ~(idx < Len(sections_of(page_obj)))
    /\ pc' = "close"
    /\ UNCHANGED <<files, NAV_CACHE, now, page_obj, svg, cursor_y, idx, calls>>
    /\ UNCHANGED section_vars
    /\ UNCHANGED other_vars

\* omission caption if any, newsletter band, footer strip, timestamp; the document is returned
Close ==
    /\ pc = "close"
    /\ svg' = svg \o closing_elements(sections_of(page_obj), idx, cursor_y, now)
    /\ pc' = "done"
    /\ UNCHANGED <<files, NAV_CACHE, now, page_obj, cursor_y, idx, calls>>
    /\ UNCHANGED section_vars
    /\ UNCHANGED other_vars

\* a minute passes
Tick ==
    /\ now < MaxClock
    /\ now' = now + 1
    /\ UNCHANGED <<files, NAV_CACHE, page_obj, pc, svg, cursor_y, idx, calls>>
    /\ UNCHANGED section_vars
    /\ UNCHANGED other_vars

Next ==
    \/ RenderHeader
    \/ EnsureHero
    \/ WalkDraw
    \/ WalkStop
    \/ WalkEnd
    \/ Close
    \/ Tick

Spec == Init /\ [][Next]_vars

(* ------------------------------------------------------------------ *)
(* section_height_for and draw_section applied to one section         *)
(* ------------------------------------------------------------------ *)
InitSection ==
    /\ sec \in SectionInputs
    /\ sec_pc = "input"
    /\ height = 0
    /\ out = no_output
    /\ RenderIdle
    /\ OtherIdle

Measure ==
    /\ sec_pc = "input"
    /\ height' = section_height_for(sec)
    /\ sec_pc' = "measured"
    /\ UNCHANGED <<sec, out>>
    /\ UNCHANGED render_vars
    /\ UNCHANGED other_vars

DrawOne ==
    /\ sec_pc = "measured"
    /\ out' = draw_section(<<>>, content_x, first_cursor_y, content_w, sec, 0)
    /\ sec_pc' = "drawn"
    /\ UNCHANGED <<sec, height>>
    /\ UNCHANGED render_vars
    /\ UNCHANGED other_vars

NextSection ==
    \/ Measure
    \/ DrawOne

SpecSection == InitSection /\ [][NextSection]_vars

(* ------------------------------------------------------------------ *)
(* section_height_for and draw_section on sections with missing fields *)
(* ------------------------------------------------------------------ *)
\* a component that carries every key
full_comp(kind) ==
    [type |-> JStr(kind), label |-> JStr(G_JoinNow), placeholder |-> JStr(G_Welcome),
     fields |-> JList(<<JStr(G_About), JStr(G_Services)>>),
     items |-> JList(<<JStr(G_Welcome), JStr(G_Tagline), JStr(G_fact)>>)]

\* the record without the keys that how calls absent and with null for those it calls
\* null; keys outside the domain of how are kept
sparse(all, how) ==
    [k \in {f \in DOMAIN all : f \in DOMAIN how => how[f] # "absent"} |->
        IF k \in DOMAIN how /\ how[k] = "null" THEN JNull ELSE all[k]]

\* one tag per branch of draw_section, each with the component kind its branch looks for
SparseBranches ==
    {<<K_hero, K_button>>, <<K_hero, K_text>>, <<K_features, K_cards>>, <<K_content, K_list>>,
     <<K_content, K_text>>, <<K_faq, K_accordion>>, <<K_proof, K_quote>>, <<K_proof, K_stats>>,
     <<K_steps, K_list>>, <<K_form, K_formUfield>>, <<K_cta, K_button>>, <<K_gallery, G_widget>>,
     <<K_section, G_widget>>, <<G_bogus, G_widget>>}

SECTION_FIELDS == {"id", "label", "h2", "h3", "components", "semantic"}
COMPONENT_FIELDS == {"type", "label", "placeholder", "fields", "items"}

\* sections with any fields absent or null around a full component, and full sections
\* around a component with any fields absent or null
SparseSectionInputs ==
    {JObj(sparse(full_section(b[1], <<JObj(full_comp(b[2]))>>), how)) :
        b \in {c \in SparseBranches : c[2] \notin {K_text, K_stats}},
        how \in [SECTION_FIELDS -> {"absent", "null", "given"}]}
    \cup {JObj(full_section(b[1], <<JObj(sparse(full_comp(b[2]), how))>>)) :
            b \in SparseBranches,
            how \in [COMPONENT_FIELDS -> {"absent", "null", "given"}]}

InitSparse ==
    /\ sec \in SparseSectionInputs
    /\ sec_pc = "input"
    /\ height = 0
    /\ out = no_output
    /\ RenderIdle
    /\ OtherIdle

SpecSparse == InitSparse /\ [][NextSection]_vars

(* ------------------------------------------------------------------ *)
(* main(): every page of the input document rendered to a file        *)
(* ------------------------------------------------------------------ *)
\* the longest page list of an input document
MaxPages == 2

G_about_us == <<"a", "b", "o", "u", "t", "-", "u", "s">>

\* pages: the names of two of them give the same file name, four are written to home.svg
\* (slug "/", no slug, the name Home), one has a null name, one a section that cannot be drawn
MainPagePalette ==
    {page(G_ContactUs, <<>>),
     JObj([page |-> JStr(G_about_us), slug |-> JStr(G_about_slug)]),
     JObj([page |-> JStr(L_Home), slug |-> JStr(L_slash)]),
     JObj([page |-> JStr(L_Home), slug |-> JStr(G_about_slug)]),
     JObj([page |-> JStr(G_Services)]),
     EmptyObj,
     JObj([page |-> JNull, slug |-> JStr(G_about_slug)]),
     JObj([page |-> JStr(G_Services), slug |-> JStr(G_about_slug),
           layout |-> JObj([sections |-> JList(<<JObj([type |-> JStr(K_cta),
                                                        semantic |-> JNull])>>)])])}

\* the input document: missing or malformed, without pages, with pages null or empty, and
\* with one to MaxPages pages
MainDocInputs ==
    {NoFile, EmptyObj, JObj([pages |-> JNull]), JObj([pages |-> JList(<<>>)])}
    \cup {JObj([pages |-> JList(ps)]) : ps \in UNION {[1..k -> MainPagePalette] : k \in 1..MaxPages}}

InitMain ==
    /\ \E sm \in SitemapInputs, doc \in MainDocInputs : files = [sitemap |-> sm, input |-> doc]
    /\ NAV_CACHE = JNull
    /\ now = 0
    /\ page_obj = JNull
    /\ pc = "idle"
    /\ svg = <<>>
    /\ cursor_y = 0
    /\ idx = 0
    /\ calls = <<>>
    /\ main_pc = "start"
    /\ main_i = 0
    /\ fs_dir = FALSE
    /\ fs_out = <<>>
    /\ renders = <<>>
    /\ SectionIdle
    /\ TextIdle
    /\ PipeIdle
    /\ MoreIdle

\* the pages main() iterates over
main_pages == get(files.input, "pages", JList(<<>>)).l

\* the files of OUTPUT_DIR after content is written to name
write_file(fs, name, content) ==
    [n \in DOMAIN fs \cup {name} |-> IF n = name THEN content ELSE fs[n]]

\* a faulty variant of the step below: a document without pages is not refused
MainOpenLenient ==
    /\ main_pc = "start"
    /\ IF ~IsObj(files.input)
       THEN main_pc' = "raised" /\ fs_dir' = fs_dir
       ELSE main_pc' = "loop" /\ fs_dir' = TRUE
    /\ UNCHANGED <<main_i, fs_out, renders>>
    /\ UNCHANGED <<render_vars, section_vars, text_vars, pipe_vars, more_vars>>

\* main() up to the page loop: the input is read, OUTPUT_DIR is made
MainOpen ==
    /\ main_pc = "start"
    /\ IF ~IsObj(files.input) \/ ~truthy(get(files.input, "pages", JList(<<>>)))
       THEN main_pc' = "raised" /\ fs_dir' = fs_dir
       ELSE main_pc' = "loop" /\ fs_dir' = TRUE
    /\ UNCHANGED <<main_i, fs_out, renders>>
    /\ UNCHANGED <<render_vars, section_vars, text_vars, pipe_vars, more_vars>>

\* one iteration of the page loop: the page is rendered and its file written
MainPage ==
    /\ main_pc = "loop"
    /\ main_i < Len(main_pages)
    /\ \E p \in {main_pages[main_i + 1]} :
          IF name_raises(p)
          THEN /\ main_pc' = "raised"
               /\ UNCHANGED <<main_i, fs_out, renders, NAV_CACHE>>
          ELSE \E nav \in {nav_from_page_labels(NAV_CACHE, files.sitemap, files.input)} :
               \E r \in {render_page_svg(p, nav.l, now)} :
                  /\ NAV_CACHE' = nav
                  /\ renders' = Append(renders, [page |-> p, nav |-> nav, at |-> now,
                                                 svg |-> r.svg, raised |-> r.raised])
                  /\ IF r.raised
                     THEN main_pc' = "raised" /\ UNCHANGED <<main_i, fs_out>>
                     ELSE /\ fs_out' = write_file(fs_out, out_name(p), r.svg)
                          /\ main_i' = main_i + 1
                          /\ main_pc' = "loop"
    /\ UNCHANGED <<files, now, page_obj, pc, svg, cursor_y, idx, calls, fs_dir>>
    /\ UNCHANGED <<section_vars, text_vars, pipe_vars, more_vars>>

\* the loop has passed the last page: the written files are listed
MainEnd ==
    /\ main_pc = "loop"
    /\ ~(main_i < Len(main_pages))
    /\ main_pc' = "done"
    /\ UNCHANGED <<main_i, fs_dir, fs_out, renders>>
    /\ UNCHANGED <<render_vars, section_vars, text_vars, pipe_vars, more_vars>>

NextMain ==
    \/ MainOpen
    \/ MainPage
    \/ MainEnd
    \/ Tick

SpecMain == InitMain /\ [][NextMain]_vars

(* ------------------------------------------------------------------ *)
(* main() while sitemap.json is rewritten by another process          *)
(* ------------------------------------------------------------------ *)
\* sitemap.json is replaced, removed or created during the run
SitemapChanges ==
    /\ main_pc = "loop"
    /\ \E sm \in SitemapInputs \ {files.sitemap} : files' = [files EXCEPT !.sitemap = sm]
    /\ UNCHANGED <<NAV_CACHE, now, page_obj, pc, svg, cursor_y, idx, calls>>
    /\ UNCHANGED <<section_vars, text_vars, main_vars, pipe_vars, more_vars>>

NextBatch ==
    \/ MainOpen
    \/ MainPage
    \/ MainEnd
    \/ Tick
    \/ SitemapChanges

SpecBatch == InitMain /\ [][NextBatch]_vars

(* ------------------------------------------------------------------ *)
(* render_page_svg with the navigation sources a run can find         *)
(* ------------------------------------------------------------------ *)
\* the length of a long nav label
LongLabel == 60

long_label(c) == [i \in 1..LongLabel |-> c]

\* sitemap.json: missing or malformed, without primary_nav, with one that is not a list, an
\* empty one, one of blank entries only, and lists of short and long entries
NavSitemapInputs ==
    {NoFile,
     JList(<<>>),
     EmptyObj,
     JObj([primary_nav |-> JStr(L_Home)]),
     JObj([primary_nav |-> JList(<<>>)]),
     JObj([primary_nav |-> JList(<<JStr(<<" ">>), JStr(<<>>)>>)]),
     JObj([primary_nav |-> JList(<<JStr(L_Home), JStr(<<" ">>), JNum(7), JNull,
                                   JStr(L_Contact)>>)]),
     JObj([primary_nav |-> JList(<<JStr(L_Home), JStr(long_label("m")), JStr(long_label("n")),
                                   JStr(L_Contact)>>)]),
     JObj([primary_nav |-> JList(<<JStr(long_label("m")), JStr(long_label("n")),
                                   JStr(long_label("o"))>>)]),
     JObj([primary_nav |-> JList(<<JStr(long_label("m") \o long_label("n"))>>)])}

\* the input document: missing or malformed, without pages or with pages null, with pages
\* that have no label, and with labelled pages among others
NavDocInputs ==
    {NoFile,
     EmptyObj,
     JObj([pages |-> JNull]),
     JObj([pages |-> JList(<<>>)]),
     JObj([pages |-> JList(<<EmptyObj, JObj([page |-> JStr(<<>>)]), JObj([page |-> JNull])>>)]),
     JObj([pages |-> JList(<<JObj([page |-> JStr(G_About)]), JStr(L_Home), EmptyObj,
                             JObj([page |-> JStr(G_Services)])>>)]),
     JObj([pages |-> JList(<<JObj([page |-> JStr(long_label("m"))]),
                             JObj([page |-> JStr(G_Services)]),
                             JObj([page |-> JStr(long_label("n"))])>>)])}

\* a page without sections and one whose sections do not all fit
NavPageInputs ==
    {page(G_ContactUs, <<>>),
     page(G_ContactUs, [i \in 1..3 |-> plain_section(K_faq, <<list_comp(K_accordion, 10, "items")>>)])}

InitNav ==
    /\ page_obj \in NavPageInputs
    /\ \E sm \in NavSitemapInputs, doc \in NavDocInputs : files = [sitemap |-> sm, input |-> doc]
    /\ NAV_CACHE = JNull
    /\ now = 0
    /\ pc = "begin"
    /\ svg = <<>>
    /\ cursor_y = 0
    /\ idx = 0
    /\ calls = <<>>
    /\ SectionIdle
    /\ OtherIdle

SpecNav == InitNav /\ [][Next]_vars

(* ------------------------------------------------------------------ *)
(* build_pipeline.py                                                  *)
(* ------------------------------------------------------------------ *)
PIPELINE ==
    <<[label |-> "Phase 1/2: main.py (sitemap/facts/wireframes)", cmd |-> <<"python", "main.py">>],
      [label |-> "Phase 2.5: semantics.py (semantic.json)", cmd |-> <<"python", "semantics.py">>],
      [label |-> "Enrich: enrich_wireframes.py (wireframes.enriched.json)",
       cmd |-> <<"python", "enrich_wireframes.py">>],
      [label |-> "Verify: verify.py (structure)", cmd |-> <<"python", "verify.py">>],
      [label |-> "Verify: verify_semantics.py (meaning coverage)",
       cmd |-> <<"python", "verify_semantics.py">>],
      [label |-> "Render: render_wireframes.py (SVGs)", cmd |-> <<"python", "render_wireframes.py">>]>>

\* the largest exit status a step ends with
MaxCode == 9
\* the return codes of a step: its exit status, or minus the number of the signal that
\* ended it (SIGINT, SIGKILL, SIGTERM)
ReturnCodes == (0..MaxCode) \cup {0 - 2, 0 - 9, 0 - 15}

InitPipeline ==
    /\ step = 0
    /\ pipe_pc = "loop"
    /\ returncodes = <<>>
    /\ exit_code = 0
    /\ stdout = <<>>
    /\ RenderIdle
    /\ SectionIdle
    /\ TextIdle
    /\ MainIdle
    /\ MoreIdle

\* run_step up to subprocess.run: the banner is printed, the command is started
StartStep ==
    /\ pipe_pc = "loop"
    /\ step < Len(PIPELINE)
    /\ step' = step + 1
    /\ stdout' = Append(stdout, [line |-> "===", label |-> PIPELINE[step + 1].label])
    /\ pipe_pc' = "waiting"
    /\ UNCHANGED <<returncodes, exit_code>>
    /\ UNCHANGED <<render_vars, section_vars, text_vars, main_vars, more_vars>>

\* the command ends and subprocess.run returns its return code
StepExits ==
    /\ pipe_pc = "waiting"
    /\ \E code \in ReturnCodes :
          returncodes' = Append(returncodes, [cmd |-> PIPELINE[step].cmd, returncode |-> code])
    /\ pipe_pc' = "returned"
    /\ UNCHANGED <<step, exit_code, stdout>>
    /\ UNCHANGED <<render_vars, section_vars, text_vars, main_vars, more_vars>>

\* the command cannot be started: subprocess.run raises, nothing catches it and the
\* interpreter ends with status 1
StepCannotStart ==
    /\ pipe_pc = "waiting"
    /\ pipe_pc' = "exited"
    /\ exit_code' = 1
    /\ UNCHANGED <<step, returncodes, stdout>>
    /\ UNCHANGED <<render_vars, section_vars, text_vars, main_vars, more_vars>>

\* a faulty variant of PipelineStop: the failure is reported and the next step is run
PipelineContinue ==
    /\ pipe_pc = "returned"
    /\ returncodes[Len(returncodes)].returncode # 0
    /\ stdout' = Append(stdout, [line |-> "ERROR: Pipeline stopped:", label |-> PIPELINE[step].label])
    /\ pipe_pc' = "loop"
    /\ UNCHANGED <<step, returncodes, exit_code>>
    /\ UNCHANGED <<render_vars, section_vars, text_vars, main_vars, more_vars>>

\* run_step after a non-zero return code: the failure is reported and sys.exit is called
PipelineStop ==
    /\ pipe_pc = "returned"
    /\ returncodes[Len(returncodes)].returncode # 0
    /\ stdout' = Append(stdout, [line |-> "ERROR: Pipeline stopped:", label |-> PIPELINE[step].label])
    /\ exit_code' = returncodes[Len(returncodes)].returncode
    /\ pipe_pc' = "exited"
    /\ UNCHANGED <<step, returncodes>>
    /\ UNCHANGED <<render_vars, section_vars, text_vars, main_vars, more_vars>>

\* run_step after return code 0: OK is printed and the loop goes on
StepOk ==
    /\ pipe_pc = "returned"
    /\ returncodes[Len(returncodes)].returncode = 0
    /\ stdout' = Append(stdout, [line |-> "OK:", label |-> PIPELINE[step].label])
    /\ pipe_pc' = "loop"
    /\ UNCHANGED <<step, returncodes, exit_code>>
    /\ UNCHANGED <<render_vars, section_vars, text_vars, main_vars, more_vars>>

\* the loop has passed the last step
PipelineComplete ==
    /\ pipe_pc = "loop"
    /\ ~(step < Len(PIPELINE))
    /\ stdout' = Append(stdout, [line |-> "PIPELINE COMPLETE (all steps passed).", label |-> ""])
    /\ pipe_pc' = "exited"
    /\ UNCHANGED <<step, returncodes, exit_code>>
    /\ UNCHANGED <<render_vars, section_vars, text_vars, main_vars, more_vars>>

NextPipeline ==
    \/ StartStep
    \/ StepExits
    \/ StepCannotStart
    \/ StepOk
    \/ PipelineStop
    \/ PipelineComplete

SpecPipeline == InitPipeline /\ [][NextPipeline]_vars

(* ------------------------------------------------------------------ *)
(* truncate applied to one text                                       *)
(* ------------------------------------------------------------------ *)
\* the longest text handed to truncate, and the largest max_len
MaxText == 4
MaxLenArg == 5

RECURSIVE StringsUpTo(_, _)
\* the strings of at most n characters of the alphabet
StringsUpTo(alphabet, n) ==
    IF n = 0 THEN {<<>>}
    ELSE LET shorter == StringsUpTo(alphabet, n - 1)
         IN  shorter \cup {Append(t, c) : t \in shorter, c \in alphabet}

TextInputs == {JNull} \cup {JStr(t) : t \in StringsUpTo({"a", "b", " "}, MaxText)}

InitText ==
    /\ t_in \in TextInputs
    /\ t_n \in 1..MaxLenArg
    /\ t_out = <<>>
    /\ t_pc = "input"
    /\ RenderIdle
    /\ SectionIdle
    /\ MainIdle
    /\ PipeIdle
    /\ MoreIdle

Truncate ==
    /\ t_pc = "input"
    /\ t_out' = truncate(t_in, t_n)
    /\ t_pc' = "returned"
    /\ UNCHANGED <<t_in, t_n>>
    /\ UNCHANGED <<render_vars, section_vars, main_vars, pipe_vars, more_vars>>

NextText ==
    \/ Truncate

SpecText == InitText /\ [][NextText]_vars

(* ------------------------------------------------------------------ *)
(* Properties of the sizing and of the page walk                      *)
(* ------------------------------------------------------------------ *)
\* the minimum heights the contract states, by canonical type
ClaimedMinimum(st) ==
    CASE st = K_hero -> 360
      [] st = K_features -> 260
      [] st = K_content -> 280
      [] st = K_proof -> 210
      [] st = K_steps -> 240
      [] st = K_faq -> 220
      [] st \in {K_cta, K_call_to_action, K_footer_cta} -> 160
      [] st = K_form -> 240
      [] st = K_gallery -> 240
      [] OTHER -> 220

type_of(s) == canon(get1(s, "type"))

\* C1: whatever the type tag, the components and the item counts of a section,
\* section_height_for returns at least the stated minimum of its canonical type
C1_HeightAtLeastMinimum ==
    sec_pc \in {"measured", "drawn"} => height >= ClaimedMinimum(type_of(sec))

\* a proof section was measured and the floor, not its content, decided its height
C1_Witness ==
    /\ sec_pc = "measured"
    /\ type_of(sec) = K_proof
    /\ height = 210
    /\ 72 + inner_bottom_for_section(K_proof, sec, 0, SECTION_PAD, 1000) + 8 < 210

\* the section frames of a buffer, in the order they were appended
IsSectionFrame(e) == e.kind = "rect" /\ e.cls = "sketch" /\ e.rx = 14
SectionFrames(buffer) == SelectSeq(buffer, IsSectionFrame)

\* C2: each drawn section has a frame as high as section_height_for says, and the frame
\* of the section drawn next starts at the earlier frame's top plus that height plus
\* SECTION_GAP (the leading hero included), so that no two frames overlap
C2_ConsecutiveOffsets ==
    LET frames == SectionFrames(svg)
    IN  /\ Len(frames) = Len(calls)
        /\ \A i \in 1..Len(frames) :
              /\ frames[i].y = P(calls[i].y)
              /\ frames[i].h = P(section_height_for(calls[i].sec))
        /\ \A i \in 1..(Len(frames) - 1) :
              /\ calls[i + 1].y = calls[i].y + section_height_for(calls[i].sec) + SECTION_GAP
              /\ frames[i].y + frames[i].h < frames[i + 1].y

\* a finished page with the hero and two more sections drawn
C2_Witness == pc = "done" /\ Len(SectionFrames(svg)) >= 3 /\ Len(calls) >= 3

\* the number of leading sections of rest that fit one after the other from offset y on
RECURSIVE FitCount(_, _)
FitCount(rest, y) ==
    IF rest = <<>> THEN 0
    ELSE LET h == section_height_for(Head(rest))
         IN  IF y + h <= content_bottom_limit
             THEN 1 + FitCount(Tail(rest), y + h + SECTION_GAP)
             ELSE 0

\* the supplied sections that remain once the top slot is filled
RemainingSections ==
    LET sections == sections_of(page_obj)
    IN  IF sections # <<>> /\ type_of(sections[1]) = K_hero THEN Tail(sections) ELSE sections

\* the sections drawn after the leading hero, in the order of the calls
DrawnAfterHero == [i \in 1..(Len(calls) - 1) |-> calls[i + 1].sec]

\* C3: the sections drawn after the leading hero are a prefix, in input order, of the
\* remaining supplied sections; when the walk is over it is exactly the longest prefix
\* whose sections fit one after the other, so nothing after the first misfit is drawn,
\* and each drawn section has one whole frame, none twice
C3_ContiguousPrefix ==
    pc \in {"walk", "close", "done"} =>
        LET k == FitCount(RemainingSections, first_cursor_y + 360 + SECTION_GAP)
            n == Len(DrawnAfterHero)
        IN  /\ n <= k
            /\ DrawnAfterHero = SubSeq(RemainingSections, 1, n)
            /\ pc \in {"close", "done"} => n = k
            /\ Len(SectionFrames(svg)) = n + 1

\* a finished page whose walk stopped at a misfit although a later section would have fit
C3_Witness ==
    /\ pc = "done"
    /\ idx < Len(sections_of(page_obj))
    /\ \E j \in (idx + 2)..Len(sections_of(page_obj)) :
          fits(cursor_y, section_height_for(sections_of(page_obj)[j]))

IsOmissionCaption(e) == e.kind = "text" /\ e.t = escape_xml(L_MoreNotShown)
OmissionCaptions == Len(SelectSeq(svg, IsOmissionCaption))
\* the supplied sections outnumber the calls made for supplied sections
SomeSectionUndrawn ==
    Len(SelectSeq(calls, LAMBDA c : c.supplied)) < Len(sections_of(page_obj))

\* C4: the returned document holds the omission caption exactly once when a supplied
\* section was left undrawn and not at all when every supplied section was drawn; a page
\* whose only section is a hero has one frame and no caption
C4_CaptionIffOmitted ==
    /\ pc = "done" =>
          /\ OmissionCaptions = (IF SomeSectionUndrawn THEN 1 ELSE 0)
          /\ (Len(sections_of(page_obj)) = 1 /\ type_of(sections_of(page_obj)[1]) = K_hero)
                => (Len(SectionFrames(svg)) = 1 /\ OmissionCaptions = 0)
    /\ pc # "done" => OmissionCaptions = 0

\* a finished page with a section left out and the caption in the document
C4_Witness == pc = "done" /\ SomeSectionUndrawn /\ OmissionCaptions = 1

\* C5: every section frame, the leading hero's included, ends at or above
\* content_bottom_limit, which is the newsletter band's top less SECTION_GAP; hence above
\* the band and the footer strip
C5_FramesAboveBand ==
    /\ content_bottom_limit = band_y - SECTION_GAP
    /\ \A i \in 1..Len(SectionFrames(svg)) :
          LET f == SectionFrames(svg)[i]
          IN  /\ f.y + f.h <= P(content_bottom_limit)
              /\ f.y + f.h < P(band_y)
              /\ f.y + f.h < P(footer_y)

\* a finished page whose last frame ends exactly on the limit
C5_Witness ==
    /\ pc = "done"
    /\ Len(calls) >= 3
    /\ \E i \in 1..Len(SectionFrames(svg)) :
          SectionFrames(svg)[i].y + SectionFrames(svg)[i].h = P(content_bottom_limit)

\* the h2 the contract gives a synthesized hero: the layout's h1, the page name if blank
ClaimedHeroTitle ==
    LET h1 == get(get(page_obj, "layout", EmptyObj), "h1", JStr(<<>>)).s
    IN  IF strip(h1) = <<>> THEN get(page_obj, "page", JStr(L_Page)) ELSE JStr(strip(h1))

\* C6: once the top slot is filled it holds one hero: the first supplied section when that
\* is a hero, the walk then starting at index 1, and otherwise a synthesized hero titled
\* after the h1 (or the page name), the walk then starting at index 0; the page handed in
\* is the one of the input file throughout
C6_HeroTopSlot ==
    /\ page_obj = files.input.o.pages.l[1]
    /\ pc \in {"walk", "close", "done"} =>
          LET sections == sections_of(page_obj)
              given == sections # <<>> /\ type_of(sections[1]) = K_hero
              top == calls[1]
              at_top == SelectSeq(SectionFrames(svg), LAMBDA f : f.y = P(first_cursor_y))
          IN  /\ Len(at_top) = 1
              /\ SectionFrames(svg)[1] = at_top[1]
              /\ top.y = first_cursor_y
              /\ type_of(top.sec) = K_hero
              /\ top.supplied = given
              /\ given => top.sec = sections[1]
              /\ ~given => /\ get1(top.sec, "h2") = ClaimedHeroTitle
                           /\ top.sec \notin {sections[i] : i \in 1..Len(sections)}
              /\ Len(calls) = 1 => idx = (IF given THEN 1 ELSE 0)
              /\ Len(calls) > 1 => calls[2].idx = (IF given THEN 1 ELSE 0)
              /\ idx >= (IF given THEN 1 ELSE 0)

\* a finished page without a supplied hero and with a blank h1: the hero is synthesized
\* and titled after the page, and the first supplied section is drawn below it
C6_Witness ==
    /\ pc = "done"
    /\ Len(calls) >= 2
    /\ ~calls[1].supplied
    /\ get1(calls[1].sec, "h2") = get(page_obj, "page", JStr(L_Page))
    /\ calls[2].sec = sections_of(page_obj)[1]

(* ------------------------------------------------------------------ *)
(* Properties of the sizing and drawing of one section                *)
(* ------------------------------------------------------------------ *)
\* the dict d with d[key] = value
with_key(d, key, value) ==
    JObj([k \in DOMAIN d.o \cup {key} |-> IF k = key THEN value ELSE d.o[k]])

G_extra == <<"e", "x", "t", "r", "a">>

\* the list-like component c with one more entry in the list its items are read from
with_one_more_entry(c) ==
    LET items == get1(c, "items")
        fields == get1(c, "fields")
    IN  IF IsList(items) /\ items.l # <<>>
            THEN with_key(c, "items", JList(Append(items.l, JStr(G_extra))))
        ELSE IF IsList(fields) /\ fields.l # <<>>
            THEN with_key(c, "fields", JList(Append(fields.l, JStr(G_extra))))
        ELSE with_key(c, "items", JList(<<JStr(G_extra)>>))

\* the section s with one more entry in its first component of the given kind, if any
with_longer_list(s, kind) ==
    LET comps == components_of(s)
        hits == {i \in 1..Len(comps) : canon(get1(comps[i], "type")) = kind}
    IN  IF hits = {} THEN s
        ELSE LET first == CHOOSE i \in hits : \A j \in hits : i <= j
             IN  with_key(s, "components",
                          JList([i \in 1..Len(comps) |->
                                    IF i = first THEN with_one_more_entry(comps[i])
                                    ELSE comps[i]]))

\* the section s with one more component c
with_component(s, c) == with_key(s, "components", JList(Append(components_of(s), c)))

\* the section s with one more item of the content its type is sized from
with_one_more_item(s) ==
    LET st == type_of(s)
    IN  CASE st \in {K_content, K_steps} -> with_longer_list(s, K_list)
          [] st = K_faq -> with_longer_list(s, K_accordion)
          [] st = K_features -> with_longer_list(s, K_cards)
          [] st = K_form -> with_component(s, comp(K_input, G_extra))
          [] st \in {K_hero, K_proof} \cup SIZED_AS_CTA -> s
          [] OTHER -> with_component(s, comp(G_widget, G_extra))

\* the item count of the first component of the given kind of s, 0 without one
yielded(s, kind) ==
    LET found == find_components(s, {kind})
    IN  IF found = <<>> THEN 0 ELSE Len(list_items_from_component(found[1]))

\* C7 as stated: one more item of the content a section is sized from never makes
\* section_height_for smaller, everything else in the section being the same
C7_OneMoreItemNeverShrinks ==
    sec_pc = "measured" => section_height_for(with_one_more_item(sec)) >= height

\* the sections sized by the generic branch
SizedAsGeneric(s) ==
    type_of(s) \notin {K_hero, K_features, K_content, K_faq, K_proof, K_steps, K_form}
                          \cup SIZED_AS_CTA

\* C7, amended: one more item never makes section_height_for smaller, except for the first
\* component of a generic section: without components such a section is sized for three
\* placeholder rows, with one component for one row
C7_OneMoreItemExceptFirstComponent ==
    (sec_pc = "measured" /\ ~(SizedAsGeneric(sec) /\ components_of(sec) = <<>>))
        => section_height_for(with_one_more_item(sec)) >= height

\* a content section of 5 items was measured, and is taller with a 6th
C7_Witness ==
    /\ sec_pc = "measured"
    /\ type_of(sec) = K_content
    /\ yielded(sec, K_list) = 5
    /\ yielded(with_one_more_item(sec), K_list) = 6
    /\ section_height_for(with_one_more_item(sec)) > height

\* the row count the contract sizes a faq with n accordion items by
ClaimedFaqRows(n) == IF n < 4 THEN 4 ELSE IF n > 10 THEN 10 ELSE n

faq_with(m) == plain_section(K_faq, <<list_comp(K_accordion, m, "items")>>)

\* C8: a faq section is the taller the larger its accordion item count is, strictly so
\* throughout 4..10, counts below 4 being sized as 4 and counts above 10 as 10; the
\* minimum of 220 never levels two different row counts
C8_FaqHeightTracksItems ==
    (sec_pc = "measured" /\ type_of(sec) = K_faq) =>
        LET n == yielded(sec, K_accordion)
        IN  /\ height > 220
            /\ \A m \in 0..MaxItems :
                  LET other == section_height_for(faq_with(m))
                  IN  /\ ClaimedFaqRows(m) > ClaimedFaqRows(n) => other > height
                      /\ ClaimedFaqRows(m) = ClaimedFaqRows(n) => other = height
                      /\ ClaimedFaqRows(m) < ClaimedFaqRows(n) => other < height

\* a faq with 9 items was measured, strictly taller than one with 4
C8_Witness ==
    /\ sec_pc = "measured"
    /\ type_of(sec) = K_faq
    /\ yielded(sec, K_accordion) = 9
    /\ height > section_height_for(faq_with(4))

\* the bullets of the drawn section, the offsets of its bullet columns, and one column
IsBullet(e) == e.kind = "text" /\ e.t # <<>> /\ e.t[1] = "BULLET"
Bullets == SelectSeq(out.svg, IsBullet)
BulletColumns == {Bullets[i].x : i \in 1..Len(Bullets)}
BulletColumn(x) == SelectSeq(Bullets, LAMBDA b : b.x = x)
IsImagePlaceholder(e) == e.kind = "rect" /\ e.cls = "sketch-dash"
ImagePlaceholders == Len(SelectSeq(out.svg, IsImagePlaceholder))
ContentDrawn == sec_pc = "drawn" /\ ~out.raised /\ type_of(sec) = K_content

\* C9: a content section whose first list yields 1 to 7 items is drawn with one bullet
\* column and one image placeholder; with 8 items or more it is drawn with two bullet
\* columns of equally many rows and without image placeholder
C9_ContentLayoutModes ==
    ContentDrawn =>
        LET n == yielded(sec, K_list)
        IN  /\ (1 <= n /\ n <= 7) =>
                  /\ Cardinality(BulletColumns) = 1
                  /\ ImagePlaceholders = 1
            /\ n >= 8 =>
                  /\ Cardinality(BulletColumns) = 2
                  /\ ImagePlaceholders = 0
                  /\ \A a, b \in BulletColumns :
                        Len(BulletColumn(a)) = Len(BulletColumn(b))

\* a content section of 9 items was drawn in two columns, the odd one out padded
C9_Witness ==
    /\ ContentDrawn
    /\ yielded(sec, K_list) = 9
    /\ Cardinality(BulletColumns) = 2
    /\ Len(Bullets) = 10

\* the items the first list of the drawn section yields
ListItems == list_items_from_component(find_components(sec, {K_list})[1])
\* the bullet line an item is shown as
bullet_line(item) == escape_xml(L_bullet \o truncate(JStr(item), 34))
LeftColumn == BulletColumn(CHOOSE x \in BulletColumns : \A z \in BulletColumns : x <= z)
RightColumn == BulletColumn(CHOOSE x \in BulletColumns : \A z \in BulletColumns : x >= z)
IsDividerBetween(e) ==
    /\ e.kind = "line" /\ e.x1 = e.x2
    /\ LeftColumn[1].x < e.x1 /\ e.x1 < RightColumn[1].x
    /\ e.y1 < LeftColumn[1].y /\ e.y2 > LeftColumn[Len(LeftColumn)].y

\* the two columns show the first m items of the list: the left one the first ceil(m/2)
\* of them, the right one the others and then fillers down to the left one's last row,
\* with a vertical divider in between
TwoColumnsShow(m) ==
    LET left_n == (m + 1) \div 2
    IN  /\ Len(LeftColumn) = left_n
        /\ Len(RightColumn) = left_n
        /\ \A i \in 1..left_n :
              /\ LeftColumn[i].t = bullet_line(ListItems[i])
              /\ RightColumn[i].t = (IF left_n + i <= m THEN bullet_line(ListItems[left_n + i])
                                     ELSE bullet_line(L_AdditionalPoint))
              /\ LeftColumn[i].y = RightColumn[i].y
              /\ i > 1 => LeftColumn[i].y > LeftColumn[i - 1].y
        /\ \E i \in 1..Len(out.svg) : IsDividerBetween(out.svg[i])

\* C10 as stated: in two-column mode the columns show all n items, whatever n is
C10_AllItemsShown ==
    (ContentDrawn /\ yielded(sec, K_list) >= 8) =>
        /\ TwoColumnsShow(yielded(sec, K_list))
        /\ \A i \in 1..Len(ListItems) :
              \E j \in 1..Len(Bullets) : Bullets[j].t = bullet_line(ListItems[i])

\* C10, amended: in two-column mode the columns show the first min(n, 12) items, split and
\* padded as stated (10 items: 5 and 5, no filler); the items after the 12th are not drawn
C10_FirstTwelveShown ==
    (ContentDrawn /\ yielded(sec, K_list) >= 8) =>
        LET n == yielded(sec, K_list)
        IN  /\ TwoColumnsShow(Min(n, 12))
            /\ \A i \in 1..n :
                  (\E j \in 1..Len(Bullets) : Bullets[j].t = bullet_line(ListItems[i]))
                      <=> i <= 12
            /\ n = 10 => \A j \in 1..Len(Bullets) :
                            Bullets[j].t # bullet_line(L_AdditionalPoint)

\* a content section of 13 items was drawn: two columns of 6, the 13th item left out
C10_Witness ==
    /\ ContentDrawn
    /\ yielded(sec, K_list) = 13
    /\ Len(LeftColumn) = 6
    /\ Len(RightColumn) = 6
    /\ \A j \in 1..Len(Bullets) : Bullets[j].t # bullet_line(ListItems[13])

(* ------------------------------------------------------------------ *)
(* Properties of truncate                                             *)
(* ------------------------------------------------------------------ *)
\* C11: for every text (empty, blank and None included) and every max_len >= 1, truncate
\* returns a str of at most max_len characters; for None and blank texts the empty one
C11_TruncateWithinLength ==
    t_pc = "returned" =>
        /\ t_out \in Seq({"a", "b", " ", "ELLIPSIS"})
        /\ Len(t_out) <= t_n
        /\ (t_in = JNull \/ t_in.s \in Seq({" "})) => t_out = <<>>

\* a text longer than max_len was cut to exactly max_len characters, the ellipsis included
C11_Witness ==
    /\ t_pc = "returned"
    /\ t_in # JNull
    /\ Len(t_in.s) > t_n
    /\ Len(t_out) = t_n
    /\ t_out[t_n] = "ELLIPSIS"

\* C12 as stated: a text of at most max_len characters is returned unchanged
C12_ShortTextUnchanged ==
    (t_pc = "returned" /\ t_in # JNull /\ Len(t_in.s) <= t_n) => t_out = t_in.s

\* the text without its leading and trailing blanks, stated on its own
Trimmed(t) ==
    IF \A i \in 1..Len(t) : t[i] = " " THEN <<>>
    ELSE LET first == CHOOSE i \in 1..Len(t) : t[i] # " " /\ \A j \in 1..(i - 1) : t[j] = " "
             last == CHOOSE i \in 1..Len(t) : t[i] # " " /\ \A j \in (i + 1)..Len(t) : t[j] = " "
         IN  SubSeq(t, first, last)

\* C12, amended: truncate returns the text without its surrounding whitespace whenever
\* that has at most max_len characters; hence the text itself when it neither starts nor
\* ends with whitespace and has at most max_len characters
C12_ShortTextTrimmed ==
    (t_pc = "returned" /\ t_in # JNull) =>
        /\ Len(Trimmed(t_in.s)) <= t_n => t_out = Trimmed(t_in.s)
        /\ (Len(t_in.s) <= t_n /\ Trimmed(t_in.s) = t_in.s) => t_out = t_in.s

\* a text of exactly max_len characters once trimmed, but longer with its blanks
C12_Witness ==
    /\ t_pc = "returned"
    /\ t_in # JNull
    /\ Len(t_in.s) > t_n
    /\ Len(Trimmed(t_in.s)) = t_n
    /\ t_out = Trimmed(t_in.s)

(* ------------------------------------------------------------------ *)
(* Properties of the header navigation                                *)
(* ------------------------------------------------------------------ *)
IsNavLink(e) == e.kind = "text" /\ e.cls = "nav-link"
NavLinks(buffer) == SelectSeq(buffer, IsNavLink)
\* the leftmost estimated x a nav label may have: the logo's right edge plus its clearance
NavLeftLimit == hx + LOGO_W + 22
RECURSIVE WidthOfLast(_, _)
\* the estimated widths of the last j labels of nav, summed
WidthOfLast(nav, j) ==
    IF j = 0 THEN 0
    ELSE approx_text_width(nav[Len(nav) - j + 1]) + WidthOfLast(nav, j - 1)
\* the estimated left edge of the j-th label from the end, the labels after it being placed
LeftEdge(nav, j) == (cta_x - NAV_RIGHT_GAP) - WidthOfLast(nav, j) - ((j - 1) * NAV_GAP)
\* how many labels are placed when the first collision stops placement
PlacedCount(nav) ==
    CHOOSE k \in 0..Len(nav) :
        /\ \A j \in 1..k : LeftEdge(nav, j) >= NavLeftLimit
        /\ k < Len(nav) => LeftEdge(nav, k + 1) < NavLeftLimit

\* C13: once the header is rendered, the nav labels of the document are the last k labels
\* of the resolved list, last label first, each at its estimated left edge right of the
\* logo's clearance; k is the number of labels before the first collision, so the colliding
\* label and all labels before it are omitted
C13_NavIsSuffixUntilCollision ==
    (pc \notin {"begin"}) =>
        LET nav == NAV_CACHE.l
            links == NavLinks(svg)
            k == PlacedCount(nav)
        IN  /\ Len(links) = k
            /\ \A j \in 1..k :
                  /\ links[j].t = escape_xml(nav[Len(nav) - j + 1].s)
                  /\ links[j].x = P(LeftEdge(nav, j))
                  /\ links[j].x >= P(NavLeftLimit)

\* a label collided and stopped placement although labels after it were placed and a label
\* before it would have fitted in the room left
C13_Witness ==
    /\ pc = "done"
    /\ LET nav == NAV_CACHE.l
           k == PlacedCount(nav)
       IN  /\ k >= 1
           /\ Len(NavLinks(svg)) = k
           /\ Len(nav) - k >= 2
           /\ (LeftEdge(nav, k) - NAV_GAP) - approx_text_width(nav[1]) >= NavLeftLimit

\* the primary navigation list of the sitemap, <<>> when there is none
SitemapNav ==
    IF files.sitemap # NoFile /\ files.sitemap.t = "obj" /\ "primary_nav" \in DOMAIN files.sitemap.o
          /\ files.sitemap.o.primary_nav.t = "list"
    THEN files.sitemap.o.primary_nav.l
    ELSE <<>>
\* an entry of the sitemap's list whose text is empty or whitespace only
IsBlankEntry(v) == v.t = "str" /\ \A i \in 1..Len(v.s) : v.s[i] = " "
\* the pages of the input document, <<>> when there are none
DocPages ==
    IF files.input # NoFile /\ files.input.t = "obj" /\ "pages" \in DOMAIN files.input.o
          /\ files.input.o.pages.t = "list"
    THEN files.input.o.pages.l
    ELSE <<>>
HasLabel(p) ==
    p.t = "obj" /\ "page" \in DOMAIN p.o /\ p.o.page.t = "str" /\ p.o.page.s # <<>>
PageLabels == LET labelled == SelectSeq(DocPages, HasLabel)
              IN  [i \in 1..Len(labelled) |-> labelled[i].o.page]
BuiltInNav == <<JStr(L_Home), JStr(L_About), JStr(L_Objectives), JStr(L_Resources),
                JStr(L_Advocacy), JStr(L_Contact)>>

\* C14 as stated: the sitemap's list is returned whenever it is present and non-empty
C14_SitemapListWhenNonEmpty ==
    (pc \notin {"begin"}) =>
        /\ NAV_CACHE.l # <<>>
        /\ NAV_CACHE.l = (IF SitemapNav # <<>> THEN SitemapNav
                          ELSE IF PageLabels # <<>> THEN PageLabels
                          ELSE BuiltInNav)

\* C14, amended: the resolved list is the sitemap's list without its blank entries, every
\* entry as a string, when at least one entry is not blank; otherwise the labels of the
\* labelled pages of the input document when there is one; otherwise the built-in list;
\* unreadable or malformed sources count as absent, and the list is never empty
C14_ThreeTierResolution ==
    (pc \notin {"begin"}) =>
        LET kept == SelectSeq(SitemapNav, LAMBDA v : ~IsBlankEntry(v))
            shown == [i \in 1..Len(kept) |-> JStr(py_str(kept[i]))]
        IN  /\ NAV_CACHE.l # <<>>
            /\ NAV_CACHE.l = (IF shown # <<>> THEN shown
                              ELSE IF PageLabels # <<>> THEN PageLabels
                              ELSE BuiltInNav)

\* a sitemap whose list has entries, all of them blank, and the nav resolved from the labels
\* of the pages
C14_Witness ==
    /\ pc = "done"
    /\ SitemapNav # <<>>
    /\ \A i \in 1..Len(SitemapNav) : IsBlankEntry(SitemapNav[i])
    /\ PageLabels # <<>>
    /\ NAV_CACHE.l = PageLabels

(* ------------------------------------------------------------------ *)
(* Properties of the generic fallback                                 *)
(* ------------------------------------------------------------------ *)
\* the section under measurement has the unrecognized tag
UnknownTag == type_of(sec) = G_bogus
GivenComponents == IF "components" \in DOMAIN sec.o THEN sec.o.components.l ELSE <<>>
\* the rows the generic fallback is said to have
GenericRows == IF GivenComponents = <<>> THEN 3
               ELSE IF Len(GivenComponents) < 6 THEN Len(GivenComponents) ELSE 6
\* row height times rows, plus the header block and the padding
GenericFormula == ((COMP_H + COMP_GAP) * GenericRows) + 72 + 18 + 8
\* the positions of the dashed rows in the drawn elements
DashedAt == {i \in 1..Len(out.svg) : out.svg[i].kind = "rect" /\ out.svg[i].cls = "sketch-dash"}
\* the text a generic row shows for the j-th row
RowText(j) ==
    IF GivenComponents = <<>> THEN L_PlaceholderContent
    ELSE escape_xml(truncate(best_text_for_component(GivenComponents[j], JStr(L_Component)), 95))
\* the generic fallback was drawn without error: min(6, n) dashed rows (3 without
\* components), each followed by its component's best display text, top to bottom
GenericRowsDrawn ==
    /\ ~out.raised
    /\ Cardinality(DashedAt) = GenericRows
    /\ \A i \in DashedAt :
          LET j == Cardinality({k \in DashedAt : k <= i})
          IN  /\ i < Len(out.svg)
              /\ out.svg[i + 1].kind = "text"
              /\ out.svg[i + 1].t = RowText(j)
              /\ out.svg[i].y = P(first_cursor_y + 72 + ((j - 1) * (COMP_H + COMP_GAP)))

\* C15 as stated: the height of a section of unrecognized type is the generic formula
C15_GenericHeightIsFormula ==
    (UnknownTag /\ sec_pc = "drawn") => (GenericRowsDrawn /\ height = GenericFormula)

\* C15, amended: a section of unrecognized type is drawn as the generic fallback without
\* error, and its height is the generic formula or the generic minimum of 220, whichever is
\* larger (the minimum applies to one and two components)
C15_GenericFallback ==
    (UnknownTag /\ sec_pc = "drawn") =>
        /\ GenericRowsDrawn
        /\ height = (IF GenericFormula > 220 THEN GenericFormula ELSE 220)
        /\ (height # GenericFormula) <=> Len(GivenComponents) \in {1, 2}

\* a 'bogus-type' section with seven components of unknown kind, six of them drawn
C15_Witness ==
    /\ UnknownTag
    /\ sec_pc = "drawn"
    /\ Len(GivenComponents) = 7
    /\ \A j \in 1..7 : GivenComponents[j].o.type = JStr(G_widget)
    /\ Cardinality(DashedAt) = 6
    /\ height = GenericFormula

(* ------------------------------------------------------------------ *)
(* Properties of main()                                               *)
(* ------------------------------------------------------------------ *)
\* the input document is missing, or has no pages (absent, null or empty)
NoPagesToRender ==
    \/ files.input = NoFile
    \/ files.input.t # "obj"
    \/ "pages" \notin DOMAIN files.input.o
    \/ files.input.o.pages = JNull
    \/ files.input.o.pages = JList(<<>>)
MainReturned == main_pc = "done"
MainRaised == main_pc = "raised"

\* C16: with the input document missing or without pages, main raises, and it has then
\* neither made the output directory nor written a file; main never returns normally
\* without having written a file
C16_NoPagesIsAnError ==
    /\ (NoPagesToRender /\ main_pc # "start") =>
          (MainRaised /\ ~fs_dir /\ DOMAIN fs_out = {} /\ renders = <<>>)
    /\ MainReturned => (fs_dir /\ DOMAIN fs_out # {})

\* main raised on a document whose pages are an empty list
C16_Witness ==
    /\ MainRaised
    /\ files.input # NoFile
    /\ files.input.t = "obj"
    /\ "pages" \in DOMAIN files.input.o
    /\ files.input.o.pages = JList(<<>>)
    /\ ~fs_dir

\* the file name the pages are said to be written to
ClaimedName(p) ==
    IF "slug" \in DOMAIN p.o /\ p.o.slug = JStr(L_slash) THEN L_home \o L_dot_svg
    ELSE safe_filename(IF "page" \in DOMAIN p.o THEN p.o.page.s ELSE L_page) \o L_dot_svg

\* C18: when main returns, there are as many output files as the document has pages, and
\* the file of each page holds the render of that page
C18_OneFilePerPage ==
    MainReturned =>
        /\ Cardinality(DOMAIN fs_out) = Len(main_pages)
        /\ \A i \in 1..Len(main_pages) :
              /\ ClaimedName(main_pages[i]) \in DOMAIN fs_out
              /\ fs_out[ClaimedName(main_pages[i])] = renders[i].svg

\* main returned after two different pages were written to one file
C18_Witness ==
    /\ MainReturned
    /\ Len(main_pages) = 2
    /\ main_pages[1] # main_pages[2]
    /\ Cardinality(DOMAIN fs_out) = 1

(* ------------------------------------------------------------------ *)
(* Properties of repeated renders                                     *)
(* ------------------------------------------------------------------ *)
\* two invocations of render_page_svg that returned, on the same page with the same
\* resolved navigation list
SameInput(i, j) ==
    /\ i < j
    /\ ~renders[i].raised
    /\ ~renders[j].raised
    /\ renders[i].page = renders[j].page
    /\ renders[i].nav = renders[j].nav
IsRenderedCaption(e) ==
    e.kind = "text" /\ Len(e.t) >= Len(L_Rendered) /\ SubSeq(e.t, 1, Len(L_Rendered)) = L_Rendered

NoSemantic == "semantic" \notin DOMAIN sec.o \/ sec.o.semantic = JNull
\* the overlay line of a section without annotation: empty intent, 0 facts
EmptyOverlay == escape_xml(L_intent \o L_facts \o <<"0">>)
IsOverlay(e) == e.kind = "text" /\ e.cls = "overlay"

\* C17: whatever fields of the section and of its component are absent or null,
\* section_height_for and draw_section return, the section is drawn with its frame and
\* its caption, and a section without semantic annotation has the empty overlay
C17_MissingFieldsNeverRaise ==
    sec_pc = "drawn" =>
        /\ ~out.raised
        /\ Len(SectionFrames(out.svg)) >= 1
        /\ Len(SelectSeq(out.svg, IsOverlay)) = 1
        /\ NoSemantic => SelectSeq(out.svg, IsOverlay)[1].t = EmptyOverlay

\* draw_section raised on a section whose semantic is null, all other fields present
C17_Witness ==
    /\ sec_pc = "drawn"
    /\ DOMAIN sec.o = SECTION_FIELDS \cup {"type"}
    /\ sec.o.semantic = JNull
    /\ \A k \in SECTION_FIELDS \ {"semantic"} : sec.o[k] # JNull
    /\ out.raised

(* ------------------------------------------------------------------ *)
(* Properties of the build pipeline                                   *)
(* ------------------------------------------------------------------ *)
LockedOrder == <<"main.py", "semantics.py", "enrich_wireframes.py", "verify.py",
                 "verify_semantics.py", "render_wireframes.py">>
\* the exit status the caller of the pipeline sees
ExitStatus == exit_code % 256
CompleteReported == \E i \in 1..Len(stdout) : stdout[i].line = "PIPELINE COMPLETE (all steps passed)."
\* the steps started so far: one banner each
Started == SelectSeq(stdout, LAMBDA l : l.line = "===")

\* C20: the steps are started in the locked order, each only after every earlier step has
\* returned 0; after the first non-zero return code no step is started and the pipeline
\* exits with that code (a non-zero exit status); PIPELINE COMPLETE is printed only after
\* all six steps returned 0
C20_PipelineOrderAndStop ==
    /\ Len(Started) = step
    /\ Len(returncodes) \in {step - 1, step} \cap (0..6)
    /\ \A i \in 1..Len(returncodes) : returncodes[i].cmd = <<"python", LockedOrder[i]>>
    /\ \A i \in 1..step : \A j \in 1..(i - 1) : returncodes[j].returncode = 0
    /\ \A i \in 1..Len(returncodes) :
          returncodes[i].returncode # 0 =>
              /\ i = step
              /\ pipe_pc \in {"returned", "exited"}
              /\ pipe_pc = "exited" =>
                    /\ exit_code = returncodes[i].returncode
                    /\ ExitStatus # 0
                    /\ exit_code \in 0..255 => ExitStatus = exit_code
    /\ CompleteReported =>
          /\ Len(returncodes) = 6
          /\ \A i \in 1..6 : returncodes[i].returncode = 0
          /\ exit_code = 0

\* verify.py returned a non-zero code after three steps passed; the pipeline exited with it
\* and neither verify_semantics.py nor render_wireframes.py was started
C20_Witness ==
    /\ pipe_pc = "exited"
    /\ step = 4
    /\ Len(returncodes) = 4
    /\ returncodes[4].returncode # 0
    /\ exit_code = returncodes[4].returncode
    /\ ~CompleteReported

(* ------------------------------------------------------------------ *)
(* Properties of proof sections                                       *)
(* ------------------------------------------------------------------ *)
ProofDrawn == sec_pc = "drawn" /\ ~out.raised /\ type_of(sec) = K_proof
HasStats == find_components(sec, {K_stats}) # <<>>
HasQuote == find_components(sec, {K_quote}) # <<>>
\* the content height the sizing allots to the section, measured from inner_y = 0
AllottedContent == inner_bottom_for_section(type_of(sec), sec, 0, SECTION_PAD, 1000)
\* the dashed box of the drawn proof section
ProofBox == SelectSeq(out.svg, LAMBDA e : e.kind = "rect" /\ e.cls = "sketch-dash")[1]

\* C21: a proof section is allotted 110 + 14 whenever it has a stats component, a quote
\* beside it or not, and 90 + 14 otherwise; the stats box (90 high) is drawn exactly when
\* the larger value is allotted
C21_StatsGetTheLargerRoom ==
    ProofDrawn =>
        /\ AllottedContent = (IF HasStats THEN 110 + 14 ELSE 90 + 14)
        /\ (ProofBox.h = P(90)) <=> (AllottedContent = 110 + 14)

\* a proof section with a quote and a stats component: the stats box is drawn, the room of
\* a quote is allotted
C21_Witness ==
    /\ ProofDrawn
    /\ HasStats
    /\ HasQuote
    /\ ProofBox.h = P(90)
    /\ AllottedContent = 90 + 14

(* ------------------------------------------------------------------ *)
(* Properties of the navigation cache                                 *)
(* ------------------------------------------------------------------ *)
\* what the sources resolve to as they are now: the sitemap's non-blank entries as
\* strings, else the labels of the pages, else the built-in list
ResolvedNow ==
    LET kept == SelectSeq(SitemapNav, LAMBDA v : ~IsBlankEntry(v))
        shown == [i \in 1..Len(kept) |-> JStr(py_str(kept[i]))]
    IN  IF shown # <<>> THEN shown ELSE IF PageLabels # <<>> THEN PageLabels ELSE BuiltInNav

\* every render of the run so far used the list the cache holds
AllRendersUseTheCache ==
    \A i \in 1..Len(renders) : renders[i].nav = NAV_CACHE

\* the cache is set once, to what the sources resolve to at that moment, and never again
CacheSetOnce ==
    /\ (NAV_CACHE = JNull /\ NAV_CACHE' # JNull) => NAV_CACHE'.l = ResolvedNow
    /\ NAV_CACHE # JNull => NAV_CACHE' = NAV_CACHE

FormDrawn == sec_pc = "drawn" /\ ~out.raised /\ type_of(sec) = K_form
\* the field-like components of the section
FieldComponents ==
    SelectSeq(GivenComponents, LAMBDA c : canon(get1(c, "type")) \in {canon(JStr(t)) : t \in FIELD_KINDS})
\* the field rows drawn: the boxes 30 high, each followed by its text
FieldRowAt == {i \in 1..Len(out.svg) :
                  out.svg[i].kind = "rect" /\ out.svg[i].cls = "sketch" /\ out.svg[i].h = P(30)}
FieldRowTexts == {out.svg[i + 1].t : i \in FieldRowAt}
SubmitButtons == SelectSeq(out.svg, LAMBDA e : e.kind = "rect" /\ e.cls = "button-dark")

\* C23: a form section with k field-like components, 1 <= k <= 6, has k field rows, one
\* without such components the three rows Name, Email, Message; one submit button follows
C23_OneRowPerField ==
    FormDrawn =>
        LET k == Len(FieldComponents)
        IN  /\ (1 <= k /\ k <= 6) => Cardinality(FieldRowAt) = k
            /\ k = 0 => (Cardinality(FieldRowAt) = 3 /\ FieldRowTexts = {L_Name, L_Email, L_Message})
            /\ Len(SubmitButtons) = 1
            /\ \A i \in FieldRowAt : SubmitButtons[1].y > out.svg[i].y

\* a form section with six field components drawn with five field rows
C23_Witness ==
    /\ FormDrawn
    /\ Len(FieldComponents) = 6
    /\ Cardinality(FieldRowAt) = 5
    /\ Len(SubmitButtons) = 1

(* ------------------------------------------------------------------ *)
(* main.py: call_llm_json(system, user, schema)                       *)
(* ------------------------------------------------------------------ *)
URL_responses == "https://api.openai.com/v1/responses"
URL_chat == "https://api.openai.com/v1/chat/completions"

W_output_text == <<"o", "u", "t", "p", "u", "t", "_", "t", "e", "x", "t">>
W_message == <<"m", "e", "s", "s", "a", "g", "e">>
W_text == <<"t", "e", "x", "t">>
W_reasoning == <<"r", "e", "a", "s", "o", "n", "i", "n", "g">>

\* the texts a model may answer with
T_object == <<"{", "\"", "a", "\"", ":", "1", "}">>
T_empty_object == <<"{", "}">>
T_array == <<"[", "]">>
T_prose == <<"o", "k">>
T_blank == <<" ">>
LLMTexts == {<<>>, T_blank, T_prose, T_array, T_empty_object, T_object, T_blank \o T_object}

\* json.loads(s), for the texts above: [raised, v]
json_loads(s) ==
    LET t == strip(s)
    IN  IF t = T_object THEN [raised |-> FALSE, v |-> JObj([a |-> JNum(1)])]
        ELSE IF t = T_empty_object THEN [raised |-> FALSE, v |-> EmptyObj]
        ELSE IF t = T_array THEN [raised |-> FALSE, v |-> JList(<<>>)]
        ELSE [raised |-> TRUE, v |-> JNull]

\* the schema handed to call_llm_json: an object that must have the key a
output_schema == [type |-> "object", required |-> {"a"}]
\* jsonschema.validate(instance, schema) raises unless this holds
validates(instance, schema) ==
    /\ schema.type = "object" => IsObj(instance)
    /\ IsObj(instance) => schema.required \subseteq DOMAIN instance.o

\* what requests.post may receive
NotJson == [t |-> "notjson"]
NetworkError == [kind |-> "error"]
http(status, body) == [kind |-> "http", status |-> status, body |-> body]
HttpStatuses == {200, 400, 500}

output_message(t) ==
    JObj([type |-> JStr(W_message),
          content |-> JList(<<JObj([type |-> JStr(W_output_text), text |-> JStr(t)])>>)])
ResponsesBodies ==
    {NotJson, EmptyObj, JList(<<>>), JObj([output |-> JList(<<JObj([type |-> JStr(W_reasoning)])>>)])}
    \cup {JObj([output_text |-> JStr(t)]) : t \in LLMTexts}
    \cup {JObj([output |-> JList(<<output_message(t)>>)]) : t \in LLMTexts}
    \cup {JObj([output |-> JList(<<output_message(T_blank), output_message(T_object)>>)])}
ChatBodies ==
    {NotJson, EmptyObj, JList(<<>>), JObj([choices |-> JList(<<>>)]),
     JObj([choices |-> JList(<<JObj([message |-> JObj([content |-> JNull])])>>)])}
    \cup {JObj([choices |-> JList(<<JObj([message |-> JObj([content |-> JStr(t)])])>>)]) :
            t \in LLMTexts}
ResponsesReplies == {NetworkError} \cup {http(st, b) : st \in HttpStatuses, b \in ResponsesBodies}
ChatReplies == {NetworkError} \cup {http(st, b) : st \in HttpStatuses, b \in ChatBodies}

\* openai_post_json(url, payload) once requests.post received r: die leaves through
\* SystemExit, anything else that goes wrong raises an Exception
openai_post_json(r) ==
    IF r.kind = "error" THEN [exited |-> FALSE, raised |-> TRUE, json |-> JNull]
    ELSE IF r.status >= 400 THEN [exited |-> TRUE, raised |-> FALSE, json |-> JNull]
    ELSE IF r.body = NotJson THEN [exited |-> FALSE, raised |-> TRUE, json |-> JNull]
    ELSE [exited |-> FALSE, raised |-> FALSE, json |-> r.body]

\* the texts of the output_text and text parts of the message items of out
RECURSIVE message_chunks(_)
message_chunks(items) ==
    IF items = <<>> THEN <<>>
    ELSE LET item == Head(items)
             content == IF IsObj(item) THEN get(item, "content", JList(<<>>)) ELSE JNull
             parts == IF IsObj(item) /\ get1(item, "type") = JStr(W_message) /\ IsList(content)
                      THEN SelectSeq(content.l,
                                     LAMBDA c : /\ IsObj(c)
                                                /\ get1(c, "type") \in {JStr(W_output_text), JStr(W_text)}
                                                /\ IsStr(get1(c, "text")))
                      ELSE <<>>
         IN  [i \in 1..Len(parts) |-> get1(parts[i], "text").s] \o message_chunks(Tail(items))

\* _extract_text_from_responses(resp): [raised, s]
extract_text_from_responses(resp) ==
    IF IsObj(resp) /\ IsStr(get1(resp, "output_text"))
    THEN [raised |-> FALSE, s |-> strip(get1(resp, "output_text").s)]
    ELSE IF ~IsObj(resp) THEN [raised |-> TRUE, s |-> <<>>]
    ELSE LET out_ == get1(resp, "output")
             chunks == IF IsList(out_) THEN message_chunks(out_.l) ELSE <<>>
         IN  [raised |-> FALSE, s |-> IF chunks # <<>> THEN strip(join(<<"\n">>, chunks)) ELSE <<>>]

\* (resp.get("choices", [{}])[0].get("message", {}).get("content") or "").strip(): [raised, s]
chat_content(resp) ==
    IF ~IsObj(resp) THEN [raised |-> TRUE, s |-> <<>>]
    ELSE LET choices == get(resp, "choices", JList(<<EmptyObj>>))
         IN  IF ~IsList(choices) \/ choices.l = <<>> \/ ~IsObj(choices.l[1])
             THEN [raised |-> TRUE, s |-> <<>>]
             ELSE LET message == get(choices.l[1], "message", EmptyObj)
                  IN  IF ~IsObj(message) THEN [raised |-> TRUE, s |-> <<>>]
                      ELSE LET content == py_or(get1(message, "content"), JStr(<<>>))
                           IN  IF ~IsStr(content) THEN [raised |-> TRUE, s |-> <<>>]
                               ELSE [raised |-> FALSE, s |-> strip(content.s)]

\* the rest of either attempt: the text found is loaded and validated; [raised, data]
loaded(found, schema) ==
    IF found.raised \/ found.s = <<>> THEN [raised |-> TRUE, data |-> JNull]
    ELSE LET data == json_loads(found.s)
         IN  IF data.raised \/ ~validates(data.v, schema) THEN [raised |-> TRUE, data |-> JNull]
             ELSE [raised |-> FALSE, data |-> data.v]

InitLLM ==
    /\ api_key \in BOOLEAN
    /\ llm_pc = "call"
    /\ posts = <<>>
    /\ replies = <<>>
    /\ llm_ret = JNull
    /\ RenderIdle
    /\ SectionIdle
    /\ TextIdle
    /\ MainIdle
    /\ PipeIdle
    /\ EnrichIdle
    /\ ItemsIdle
    /\ ThreadsIdle

\* the try block: the Responses API is posted to, its answer extracted, loaded, validated
ResponsesAttempt ==
    /\ llm_pc = "call"
    /\ IF ~api_key
       THEN /\ llm_pc' = "exited"
            /\ UNCHANGED <<posts, replies, llm_ret>>
       ELSE \E r \in ResponsesReplies :
                LET resp == openai_post_json(r)
                    got == loaded(IF resp.exited \/ resp.raised THEN [raised |-> TRUE, s |-> <<>>]
                                  ELSE extract_text_from_responses(resp.json), output_schema)
                IN  /\ posts' = Append(posts, URL_responses)
                    /\ replies' = Append(replies, r)
                    /\ llm_pc' = IF resp.exited THEN "exited"
                                 ELSE IF got.raised THEN "fallback" ELSE "returned"
                    /\ llm_ret' = IF resp.exited THEN JNull ELSE got.data
    /\ UNCHANGED api_key
    /\ UNCHANGED <<base_vars, enrich_vars, items_vars, thread_vars>>

\* the except Exception block: Chat Completions is posted to, its content loaded, validated
FallbackAttempt ==
    /\ llm_pc = "fallback"
    /\ IF ~api_key
       THEN /\ llm_pc' = "exited"
            /\ UNCHANGED <<posts, replies, llm_ret>>
       ELSE \E r \in ChatReplies :
                LET resp == openai_post_json(r)
                    got == loaded(IF resp.exited \/ resp.raised THEN [raised |-> TRUE, s |-> <<>>]
                                  ELSE chat_content(resp.json), output_schema)
                IN  /\ posts' = Append(posts, URL_chat)
                    /\ replies' = Append(replies, r)
                    /\ llm_pc' = IF resp.exited THEN "exited"
                                 ELSE IF got.raised THEN "raised" ELSE "returned"
                    /\ llm_ret' = IF resp.exited THEN JNull ELSE got.data
    /\ UNCHANGED api_key
    /\ UNCHANGED <<base_vars, enrich_vars, items_vars, thread_vars>>

NextLLM ==
    \/ ResponsesAttempt
    \/ FallbackAttempt

SpecLLM == InitLLM /\ [][NextLLM]_vars

(* ------------------------------------------------------------------ *)
(* Properties of call_llm_json                                        *)
(* ------------------------------------------------------------------ *)
LLMDone == llm_pc \in {"returned", "raised", "exited"}
LLMFailed == llm_pc \in {"raised", "exited"}
\* the answer is an HTTP error status
IsHttpError(r) == r.kind = "http" /\ r.status >= 400
\* the answer carries a text that loads to a value the schema accepts
AnswerTexts(r) ==
    IF r.kind # "http" \/ r.body = NotJson \/ ~IsObj(r.body) THEN {}
    ELSE {t \in LLMTexts :
            \/ r.body = JObj([output_text |-> JStr(t)])
            \/ r.body = JObj([output |-> JList(<<output_message(t)>>)])
            \/ r.body = JObj([choices |-> JList(<<JObj([message |-> JObj([content |-> JStr(t)])])>>)])}
    \cup IF r.kind = "http" /\ r.body = JObj([output |-> JList(<<output_message(T_blank), output_message(T_object)>>)])
         THEN {T_object} ELSE {}
AttemptFailed(r) ==
    \/ r.kind = "error"
    \/ IsHttpError(r)
    \/ \A t \in AnswerTexts(r) : t \notin {T_object, T_blank \o T_object}

\* C24: the Responses API is posted to first; once that attempt has failed, for whatever
\* reason, Chat Completions is posted to exactly once; a returned value satisfies the
\* schema; the call fails only after a failed fallback attempt
C24_FallbackOnAnyFailure ==
    (api_key /\ LLMDone) =>
        /\ posts # <<>> /\ posts[1] = URL_responses
        /\ AttemptFailed(replies[1]) => posts = <<URL_responses, URL_chat>>
        /\ ~AttemptFailed(replies[1]) => (posts = <<URL_responses>> /\ llm_pc = "returned")
        /\ llm_pc = "returned" => (IsObj(llm_ret) /\ "a" \in DOMAIN llm_ret.o)
        /\ LLMFailed => (Len(posts) = 2 /\ AttemptFailed(replies[2]))

\* the Responses API answered with an HTTP error status and the call ended there
C24_Witness ==
    /\ api_key
    /\ llm_pc = "exited"
    /\ Len(replies) = 1
    /\ IsHttpError(replies[1])
    /\ posts = <<URL_responses>>

(* ------------------------------------------------------------------ *)
(* enrich_wireframes.py and verify_semantics.py                       *)
(* ------------------------------------------------------------------ *)
W_unknown == <<"u", "n", "k", "n", "o", "w", "n">>
W_neutral == <<"n", "e", "u", "t", "r", "a", "l">>
W_bullets == <<"b", "u", "l", "l", "e", "t", "s">>
W_section_dash == <<"<", "s", "e", "c", "t", "i", "o", "n", "-">>
NARRATIVE_PREFIXES ==
    <<<<"f", "a", "c", "t", "s", ".", "m", "i", "s", "s", "i", "o", "n">>,
      <<"f", "a", "c", "t", "s", ".", "v", "i", "s", "i", "o", "n">>,
      <<"f", "a", "c", "t", "s", ".", "o", "v", "e", "r", "v", "i", "e", "w">>,
      <<"f", "a", "c", "t", "s", ".", "a", "b", "o", "u", "t">>,
      <<"f", "a", "c", "t", "s", ".", "b", "a", "c", "k", "g", "r", "o", "u", "n", "d">>>>
POINT_PREFIXES ==
    <<<<"f", "a", "c", "t", "s", ".", "o", "b", "j", "e", "c", "t", "i", "v", "e", "s">>,
      <<"f", "a", "c", "t", "s", ".", "s", "t", "e", "p", "s">>,
      <<"f", "a", "c", "t", "s", ".", "c", "r", "i", "t", "e", "r", "i", "a">>,
      <<"f", "a", "c", "t", "s", ".", "f", "a", "q">>,
      <<"f", "a", "c", "t", "s", ".", "k", "e", "y", "_", "p", "o", "i", "n", "t", "s">>>>
CARD_PREFIXES ==
    <<<<"f", "a", "c", "t", "s", ".", "o", "f", "f", "e", "r", "i", "n", "g", "s">>,
      <<"f", "a", "c", "t", "s", ".", "s", "e", "r", "v", "i", "c", "e", "s">>,
      <<"f", "a", "c", "t", "s", ".", "r", "e", "s", "o", "u", "r", "c", "e", "s">>,
      <<"f", "a", "c", "t", "s", ".", "p", "r", "o", "g", "r", "a", "m", "s">>>>
CTA_PREFIXES ==
    <<<<"f", "a", "c", "t", "s", ".", "c", "t", "a">>,
      <<"f", "a", "c", "t", "s", ".", "c", "o", "n", "t", "a", "c", "t">>,
      <<"f", "a", "c", "t", "s", ".", "e", "m", "a", "i", "l">>,
      <<"f", "a", "c", "t", "s", ".", "p", "h", "o", "n", "e">>>>

PROVENANCE_KINDS == {K_hero, K_text, K_cards, W_bullets, K_cta, K_quote, K_faq}

startswith(s, prefix) == Len(s) >= Len(prefix) /\ SubSeq(s, 1, Len(prefix)) = prefix

\* s.lstrip('/')
RECURSIVE lstrip_slashes(_)
lstrip_slashes(s) == IF s # <<>> /\ Head(s) = "/" THEN lstrip_slashes(Tail(s)) ELSE s

\* semantic_page_key(p)
semantic_page_key(p) == py_or(py_or(get1(p, "path"), get1(p, "page_id")), JStr(<<>>))

\* the inner dictionary built from the first n sections of a page of semantic.json
RECURSIVE label_lookup(_, _)
label_lookup(secs, n) ==
    IF n = 0 THEN <<>>
    ELSE LET m == label_lookup(secs, n - 1)
             label == get(secs[n], "section_label", JStr(<<>>))
         IN  [k \in DOMAIN m \cup {label} |-> IF k = label THEN secs[n] ELSE m[k]]

\* sem_lookup after the first n pages of semantic.json
RECURSIVE sem_lookup(_, _)
sem_lookup(pages, n) ==
    IF n = 0 THEN <<>>
    ELSE LET m == sem_lookup(pages, n - 1)
             key == semantic_page_key(pages[n])
             secs == get(pages[n], "sections", JList(<<>>)).l
         IN  [k \in DOMAIN m \cup {key} |-> IF k = key THEN label_lookup(secs, Len(secs)) ELSE m[k]]

\* pick(prefixes) over the list supporting
pick(prefixes, supporting) ==
    LET facts == IF IsList(supporting) THEN supporting.l ELSE <<>>
        picked == flatten([i \in 1..Len(prefixes) |->
                      SelectSeq(facts, LAMBDA f : IsStr(f) /\ startswith(f.s, prefixes[i]))])
    IN  IF picked # <<>> THEN JList(picked) ELSE supporting

\* whether the loop over the components of a section raises in enrich_wireframes.py
enrich_components_raise(section) ==
    LET comps == get(section, "components", JList(<<>>))
    IN  \/ ~IsList(comps)
        \/ \E i \in 1..Len(comps.l) :
              \/ ~IsObj(comps.l[i])
              \/ ~IsStr(py_or(get(comps.l[i], "type", JStr(<<>>)), JStr(<<>>)))

\* the component after the body of that loop
enrich_component(c, supporting) ==
    LET ctype == lower(py_or(get(c, "type", JStr(<<>>)), JStr(<<>>)).s)
    IN  IF ctype \notin PROVENANCE_KINDS THEN c
        ELSE with_key(c, "provenance_hint",
                 IF ctype \in {K_hero, K_text, K_quote} THEN pick(NARRATIVE_PREFIXES, supporting)
                 ELSE IF ctype \in {W_bullets, K_faq} THEN pick(POINT_PREFIXES, supporting)
                 ELSE IF ctype = K_cards THEN pick(CARD_PREFIXES, supporting)
                 ELSE IF ctype = K_cta THEN pick(CTA_PREFIXES, supporting)
                 ELSE supporting)

default_semantic ==
    JObj([intent |-> JStr(W_unknown), narrative_role |-> JStr(W_unknown), tone |-> JStr(W_neutral),
          supporting_facts |-> JList(<<>>), success_signal |-> JStr(<<>>)])

\* the semantic block matched for a label under the candidate keys, or None
matched_semantic(lookup, candidates, label) ==
    LET hits == SelectSeq(candidates,
                          LAMBDA k : /\ JStr(k) \in DOMAIN lookup
                                     /\ label \in DOMAIN lookup[JStr(k)]
                                     /\ truthy(lookup[JStr(k)][label]))
    IN  IF hits = <<>> THEN JNull ELSE lookup[JStr(hits[1])][label]

\* the body of the loop over the sections of a page: [raised, section]
enrich_section(section, lookup, candidates) ==
    IF ~IsObj(section) THEN [raised |-> TRUE, section |-> section]
    ELSE LET label == py_or(py_or(get1(section, "h2"), get1(section, "label")), JStr(<<>>))
             sem == matched_semantic(lookup, candidates, label)
         IN  IF ~truthy(sem)
             THEN [raised |-> FALSE, section |-> with_key(section, "semantic", default_semantic)]
             ELSE LET supporting == py_or(get(sem, "supporting_facts", JList(<<>>)), JList(<<>>))
                      semantic ==
                          JObj([intent |-> get(sem, "semantic_intent", JStr(W_unknown)),
                                narrative_role |-> get(sem, "narrative_role", JStr(W_unknown)),
                                tone |-> get(sem, "tone", JStr(W_neutral)),
                                supporting_facts |-> supporting,
                                success_signal |-> py_or(get(sem, "success_signal", JStr(<<>>)), JStr(<<>>))])
                      marked == with_key(section, "semantic", semantic)
                  IN  IF enrich_components_raise(section)
                      THEN [raised |-> TRUE, section |-> section]
                      ELSE IF "components" \notin DOMAIN section.o
                      THEN [raised |-> FALSE, section |-> marked]
                      ELSE [raised |-> FALSE,
                            section |-> with_key(marked, "components",
                                JList([i \in 1..Len(section.o.components.l) |->
                                          enrich_component(section.o.components.l[i], supporting)]))]

\* the body of the loop over the pages: [raised, page]
enrich_page(pg, lookup) ==
    LET slug == py_or(get1(pg, "slug"), JStr(<<>>))
        candidates == IF truthy(slug) THEN <<slug.s, <<"/">> \o lstrip_slashes(slug.s)>> ELSE <<>>
        layout == get(pg, "layout", EmptyObj)
        sections == IF IsObj(layout) THEN get(layout, "sections", JList(<<>>)) ELSE JNull
    IN  IF ~IsStr(slug) \/ ~IsObj(layout) \/ ~IsList(sections) THEN [raised |-> TRUE, page |-> pg]
        ELSE LET done == [i \in 1..Len(sections.l) |-> enrich_section(sections.l[i], lookup, candidates)]
             IN  IF \E i \in 1..Len(done) : done[i].raised THEN [raised |-> TRUE, page |-> pg]
                 ELSE IF "layout" \notin DOMAIN pg.o \/ "sections" \notin DOMAIN layout.o
                 THEN [raised |-> FALSE, page |-> pg]
                 ELSE [raised |-> FALSE,
                       page |-> with_key(pg, "layout",
                                   with_key(layout, "sections",
                                       JList([i \in 1..Len(done) |-> done[i].section])))]

\* main of enrich_wireframes.py on the two documents: [raised, doc]
enrich_main(wf, sem) ==
    LET sem_pages == get(sem, "pages", JList(<<>>)).l
        lookup == sem_lookup(sem_pages, Len(sem_pages))
        pages == get(wf, "pages", JList(<<>>)).l
        done == [i \in 1..Len(pages) |-> enrich_page(pages[i], lookup)]
    IN  IF \E i \in 1..Len(done) : done[i].raised THEN [raised |-> TRUE, doc |-> NoFile]
        ELSE IF "pages" \notin DOMAIN wf.o THEN [raised |-> FALSE, doc |-> wf]
        ELSE [raised |-> FALSE,
              doc |-> with_key(wf, "pages", JList([i \in 1..Len(done) |-> done[i].page]))]

\* verify_semantics.py, the body of the loop over the sections: [raised, missing]
verify_section(slug, i0, section) ==
    LET label == py_or(py_or(get1(section, "h2"), get1(section, "label")),
                       JStr(W_section_dash \o int_str(i0) \o <<">">>))
        sem == get1(section, "semantic")
        required == <<"intent", "narrative_role", "tone", "supporting_facts", "success_signal">>
        absent == SelectSeq(required, LAMBDA k : k \notin DOMAIN sem.o)
        no_keys == [i \in 1..Len(absent) |->
                       [slug |-> slug, label |-> label, reason |-> "missing semantic", what |-> absent[i]]]
        supporting == get(sem, "supporting_facts", JList(<<>>))
        comps == get(section, "components", JList(<<>>))
        unhinted == SelectSeq(comps.l,
                              LAMBDA c : /\ lower(get(c, "type", JStr(<<>>)).s) \in PROVENANCE_KINDS
                                         /\ "provenance_hint" \notin DOMAIN c.o)
    IN  IF ~IsObj(sem)
        THEN [raised |-> FALSE,
              missing |-> <<[slug |-> slug, label |-> label, reason |-> "missing semantic object",
                             what |-> ""]>>]
        ELSE IF ~truthy(supporting) THEN [raised |-> FALSE, missing |-> no_keys]
        ELSE IF \/ ~IsList(comps)
                \/ \E i \in 1..Len(comps.l) :
                      ~IsObj(comps.l[i]) \/ ~IsStr(get(comps.l[i], "type", JStr(<<>>)))
        THEN [raised |-> TRUE, missing |-> no_keys]
        ELSE [raised |-> FALSE,
              missing |-> no_keys \o
                  [i \in 1..Len(unhinted) |->
                      [slug |-> slug, label |-> label, reason |-> "component missing provenance_hint",
                       what |-> ""]]]

\* main of verify_semantics.py up to the test of missing: [raised, missing]
verify_main(wf) ==
    LET pages == get(wf, "pages", JList(<<>>)).l
        of_page(pg) ==
            LET layout == py_or(get1(pg, "layout"), EmptyObj)
                sections == get(layout, "sections", JList(<<>>)).l
            IN  [i \in 1..Len(sections) |->
                    verify_section(get(pg, "slug", JNull), i - 1, sections[i])]
        all == flatten([i \in 1..Len(pages) |-> of_page(pages[i])])
    IN  [raised |-> \E i \in 1..Len(all) : all[i].raised,
         missing |-> flatten([i \in 1..Len(all) |-> all[i].missing])]

\* the documents the two programs are run on
MaxEnrichSections == 1

L_Intro == <<"I", "n", "t", "r", "o">>
L_Other == <<"O", "t", "h", "e", "r">>
S_about == <<"a", "b", "o", "u", "t">>
S_slash_about == <<"/", "a", "b", "o", "u", "t">>
S_slash_other == <<"/", "o", "t", "h", "e", "r">>
F_mission == <<"f", "a", "c", "t", "s", ".", "m", "i", "s", "s", "i", "o", "n">>
F_cta == <<"f", "a", "c", "t", "s", ".", "c", "t", "a", ".", "p", "r", "i", "m", "a", "r", "y">>
F_team == <<"f", "a", "c", "t", "s", ".", "t", "e", "a", "m">>
W_inform == <<"i", "n", "f", "o", "r", "m">>

typed(kind) == JObj([type |-> kind])
EnrichComponentLists ==
    {<<typed(JStr(k))>> : k \in {K_hero, G_Hero, W_bullets, K_cards, K_cta, G_widget}}
    \cup {<<>>, <<typed(JNull)>>, <<EmptyObj>>, <<typed(JStr(K_hero)), typed(JStr(K_cta))>>}
EnrichSections ==
    {JObj([h2 |-> JStr(L_Intro), components |-> JList(cl)]) : cl \in EnrichComponentLists}
    \cup {JObj([label |-> JStr(L_Intro), components |-> JList(cl)]) : cl \in EnrichComponentLists}
    \cup {JObj([h2 |-> JStr(<<>>), label |-> JStr(L_Other), components |-> JList(cl)]) :
            cl \in EnrichComponentLists}
    \cup {EmptyObj, JObj([h2 |-> JStr(L_Intro)])}
RECURSIVE seqs_up_to(_, _)
seqs_up_to(S, n) ==
    IF n = 0 THEN {<<>>}
    ELSE LET shorter == seqs_up_to(S, n - 1)
         IN  shorter \cup {Append(q, x) : q \in {r \in shorter : Len(r) = n - 1}, x \in S}
EnrichPages ==
    {JObj([slug |-> JStr(sl), layout |-> JObj([sections |-> JList(secs)])]) :
        sl \in {S_about, S_slash_about}, secs \in seqs_up_to(EnrichSections, MaxEnrichSections)}
    \cup {JObj([layout |-> JObj([sections |-> JList(secs)])]) :
            secs \in seqs_up_to(EnrichSections, MaxEnrichSections)}
    \cup {JObj([slug |-> JStr(S_about)]), JObj([slug |-> JStr(S_about), layout |-> JNull])}
WireframeInputs == {JObj([pages |-> JList(<<pg>>)]) : pg \in EnrichPages} \cup {EmptyObj}

FactLists == {<<>>, <<JStr(F_mission)>>, <<JStr(F_team)>>, <<JStr(F_cta), JStr(F_mission)>>}
SemanticSections ==
    {JObj([section_label |-> JStr(L_Intro), semantic_intent |-> JStr(W_inform),
           supporting_facts |-> JList(fl)]) : fl \in FactLists}
    \cup {JObj([section_label |-> JStr(L_Intro)]),
          JObj([section_label |-> JStr(L_Other), supporting_facts |-> JNull,
                success_signal |-> JNull])}
SemanticInputs ==
    {JObj([pages |-> JList(<<JObj([path |-> JStr(k), sections |-> JList(<<ss>>)])>>)]) :
        k \in {S_slash_about, S_slash_other}, ss \in SemanticSections}
    \cup {JObj([pages |-> JList(<<JObj([page_id |-> JStr(S_about), sections |-> JList(<<ss>>)])>>)]) :
            ss \in SemanticSections}
    \cup {EmptyObj}

InitEnrich ==
    /\ wireframes \in WireframeInputs
    /\ semantics \in SemanticInputs
    /\ enriched = NoFile
    /\ en_pc = "enrich"
    /\ missing = <<>>
    /\ RenderIdle
    /\ SectionIdle
    /\ TextIdle
    /\ MainIdle
    /\ PipeIdle
    /\ LLMIdle
    /\ ItemsIdle
    /\ ThreadsIdle

\* enrich_wireframes.py runs to its end and saves wireframes.enriched.json
Enrich ==
    /\ en_pc = "enrich"
    /\ \E r \in {enrich_main(wireframes, semantics)} :
          /\ ~r.raised
          /\ enriched' = r.doc
          /\ en_pc' = "verify"
    /\ UNCHANGED <<wireframes, semantics, missing>>
    /\ UNCHANGED <<base_vars, llm_vars, items_vars, thread_vars>>

\* enrich_wireframes.py ends with a traceback; nothing is saved
EnrichRaises ==
    /\ en_pc = "enrich"
    /\ enrich_main(wireframes, semantics).raised
    /\ en_pc' = "enrich_raised"
    /\ UNCHANGED <<wireframes, semantics, enriched, missing>>
    /\ UNCHANGED <<base_vars, llm_vars, items_vars, thread_vars>>

\* verify_semantics.py runs on the saved file
Verify ==
    /\ en_pc = "verify"
    /\ \E v \in {verify_main(enriched)} :
          /\ missing' = v.missing
          /\ en_pc' = IF v.raised THEN "verify_raised"
                      ELSE IF v.missing # <<>> THEN "verify_failed" ELSE "verify_passed"
    /\ UNCHANGED <<wireframes, semantics, enriched>>
    /\ UNCHANGED <<base_vars, llm_vars, items_vars, thread_vars>>

NextEnrich ==
    \/ Enrich
    \/ EnrichRaises
    \/ Verify

SpecEnrich == InitEnrich /\ [][NextEnrich]_vars

(* ------------------------------------------------------------------ *)
(* Properties of the enriched wireframes                              *)
(* ------------------------------------------------------------------ *)
Enriched == en_pc \in {"verify", "verify_raised", "verify_failed", "verify_passed"}
Verified == en_pc \in {"verify_raised", "verify_failed", "verify_passed"}
PagesOf(doc) == IF "pages" \in DOMAIN doc.o THEN doc.o.pages.l ELSE <<>>
SectionsOf(pg) ==
    IF "layout" \in DOMAIN pg.o /\ IsObj(pg.o.layout) /\ "sections" \in DOMAIN pg.o.layout.o
    THEN pg.o.layout.o.sections.l ELSE <<>>
FiveKeys == {"intent", "narrative_role", "tone", "supporting_facts", "success_signal"}
HasSemantic(section) ==
    /\ "semantic" \in DOMAIN section.o
    /\ IsObj(section.o.semantic)
    /\ FiveKeys \subseteq DOMAIN section.o.semantic.o
\* the label a section is matched by
LabelOf(section) ==
    IF "h2" \in DOMAIN section.o /\ section.o.h2 # JStr(<<>>) THEN section.o.h2
    ELSE IF "label" \in DOMAIN section.o THEN section.o.label ELSE JStr(<<>>)
\* the annotations of semantic.json that match a section of a page by page key and label
Annotations(pg, section) ==
    {a \in SemanticSections :
        \E k \in {S_slash_about, S_slash_other, S_about} :
            /\ "slug" \in DOMAIN pg.o
            /\ k \in {pg.o.slug.s, <<"/">> \o pg.o.slug.s}
            /\ \/ semantics = JObj([pages |-> JList(<<JObj([path |-> JStr(k), sections |-> JList(<<a>>)])>>)])
               \/ semantics = JObj([pages |-> JList(<<JObj([page_id |-> JStr(k), sections |-> JList(<<a>>)])>>)])
            /\ a.o.section_label = LabelOf(section)}
IsCheckedKind(c) ==
    /\ "type" \in DOMAIN c.o
    /\ IsStr(c.o.type)
    /\ lower(c.o.type.s) \in {K_hero, K_text, K_cards, W_bullets, K_cta, K_quote, K_faq}
Hinted(section) ==
    (section.o.semantic.o.supporting_facts # JList(<<>>) /\ "components" \in DOMAIN section.o) =>
        \A i \in 1..Len(section.o.components.l) :
            IsCheckedKind(section.o.components.l[i]) =>
                "provenance_hint" \in DOMAIN section.o.components.l[i].o

\* C25: in the enriched document every section has a semantic object with the five keys,
\* the default one when no annotation matches, and every component of a checked kind in a
\* section with supporting facts has a provenance hint; verify_semantics.py then passes
C25_EnrichedAlwaysVerifies ==
    /\ Enriched =>
          \A p \in 1..Len(PagesOf(enriched)) :
              LET pg == PagesOf(enriched)[p]
              IN  \A i \in 1..Len(SectionsOf(pg)) :
                      LET section == SectionsOf(pg)[i]
                      IN  /\ HasSemantic(section)
                          /\ Annotations(pg, section) = {} => section.o.semantic = default_semantic
                          /\ Hinted(section)
    /\ Verified => en_pc = "verify_passed"

\* a section with supporting facts holds a component whose type is null: the enriched
\* document has all its semantic objects and hints, and verify_semantics.py raises
C25_Witness ==
    /\ en_pc = "verify_raised"
    /\ \E p \in 1..Len(PagesOf(enriched)) :
          \E i \in 1..Len(SectionsOf(PagesOf(enriched)[p])) :
              LET section == SectionsOf(PagesOf(enriched)[p])[i]
              IN  /\ HasSemantic(section)
                  /\ section.o.semantic.o.supporting_facts # JList(<<>>)
                  /\ section.o.components = JList(<<typed(JNull)>>)

(* ------------------------------------------------------------------ *)
(* list_items_from_component(c) on its own                            *)
(* ------------------------------------------------------------------ *)
MaxListLen == 2

\* what a list of a component may hold: texts, blank texts, numbers, null
ListEntries == {JStr(<<"a">>), JStr(<<" ", "b", " ">>), JStr(<<>>), JStr(<<" ">>), JNum(0), JNull}
ListValues == {JList(q) : q \in seqs_up_to(ListEntries, MaxListLen)} \cup {JNull, JStr(<<"a">>)}
ItemComponents ==
    {JObj([items |-> i, fields |-> f]) : i \in ListValues, f \in ListValues}
    \cup {JObj([items |-> i]) : i \in ListValues}
    \cup {JObj([fields |-> f]) : f \in ListValues}
    \cup {EmptyObj}

InitItems ==
    /\ li_c \in ItemComponents
    /\ li_out = <<>>
    /\ li_pc = "call"
    /\ RenderIdle
    /\ SectionIdle
    /\ TextIdle
    /\ MainIdle
    /\ PipeIdle
    /\ LLMIdle
    /\ EnrichIdle
    /\ ThreadsIdle

CallListItems ==
    /\ li_pc = "call"
    /\ li_out' = list_items_from_component(li_c)
    /\ li_pc' = "done"
    /\ UNCHANGED li_c
    /\ UNCHANGED <<base_vars, llm_vars, enrich_vars, thread_vars>>

\* the caller drops the result; the component stays
CallListItemsAgain ==
    /\ li_pc = "done"
    /\ li_out' = <<>>
    /\ li_pc' = "call"
    /\ UNCHANGED li_c
    /\ UNCHANGED <<base_vars, llm_vars, enrich_vars, thread_vars>>

NextItems ==
    \/ CallListItems
    \/ CallListItemsAgain

SpecItems == InitItems /\ [][NextItems]_vars

(* ------------------------------------------------------------------ *)
(* Properties of list_items_from_component                            *)
(* ------------------------------------------------------------------ *)
NonEmptyList(c, key) == key \in DOMAIN c.o /\ c.o[key].t = "list" /\ c.o[key].l # <<>>
\* the list the entries are taken from
ChosenList(c) ==
    IF NonEmptyList(c, "items") THEN c.o.items.l
    ELSE IF NonEmptyList(c, "fields") THEN c.o.fields.l
    ELSE <<>>
AsText(v) == IF v.t = "str" THEN v.s ELSE IF v.t = "num" THEN int_str(v.n) ELSE L_None
IsBlankText(s) == \A i \in 1..Len(s) : s[i] \in {" ", "\t", "\n", "\r"}
KeptEntries(c) == SelectSeq(ChosenList(c), LAMBDA v : ~IsBlankText(AsText(v)))
WithoutFields(c) == JObj([k \in DOMAIN c.o \ {"fields"} |-> c.o[k]])

\* C26: the entries returned are those of items when items is a non-empty list, else those
\* of fields when fields is a non-empty list, else none; each is a string, none is blank;
\* with a non-empty items the result does not depend on fields
C26_ItemsBeforeFields ==
    li_pc = "done" =>
        /\ li_out = [i \in 1..Len(KeptEntries(li_c)) |-> AsText(KeptEntries(li_c)[i])]
        /\ \A i \in 1..Len(li_out) : li_out[i] \in Seq({"a", "b", " ", "0", "N", "o", "n", "e"})
        /\ \A i \in 1..Len(li_out) : ~IsBlankText(li_out[i])
        /\ NonEmptyList(li_c, "items") => li_out = list_items_from_component(WithoutFields(li_c))

\* a component whose items are all blank and whose fields hold a text: nothing is returned
C26_Witness ==
    /\ li_pc = "done"
    /\ NonEmptyList(li_c, "items")
    /\ NonEmptyList(li_c, "fields")
    /\ \E i \in 1..Len(li_c.o.fields.l) : li_c.o.fields.l[i] = JStr(<<"a">>)
    /\ \A i \in 1..Len(li_c.o.items.l) : li_c.o.items.l[i] \in {JStr(<<>>), JStr(<<" ">>)}
    /\ li_out = <<>>

(* ------------------------------------------------------------------ *)
(* Properties of the frame of a section                               *)
(* ------------------------------------------------------------------ *)
SectionDrawn == sec_pc = "drawn" /\ ~out.raised
\* the upper and the lower edge of an element; a text has its baseline for both
TopOf(e) ==
    IF e.kind = "rect" THEN e.y
    ELSE IF e.kind = "line" THEN (IF e.y1 < e.y2 THEN e.y1 ELSE e.y2)
    ELSE e.y
BottomOf(e) ==
    IF e.kind = "rect" THEN e.y + e.h
    ELSE IF e.kind = "line" THEN (IF e.y1 < e.y2 THEN e.y2 ELSE e.y1)
    ELSE e.y
FrameTop == P(first_cursor_y)
FrameBottom == P(first_cursor_y + height)
Outside == {i \in 1..Len(out.svg) : TopOf(out.svg[i]) < FrameTop \/ BottomOf(out.svg[i]) > FrameBottom}

\* C27: every rectangle, button, divider and text baseline drawn for a section lies between
\* the top of the section's frame and the top plus section_height_for(section)
C27_DrawnInsideFrame ==
    SectionDrawn => Outside = {}

\* a form section with three field rows whose submit button ends below the frame
C27_Witness ==
    /\ SectionDrawn
    /\ type_of(sec) = K_form
    /\ Cardinality(FieldRowAt) = 3
    /\ \E i \in Outside : out.svg[i].kind = "rect" /\ out.svg[i].cls = "button-dark"

(* ------------------------------------------------------------------ *)
(* Properties of the omission caption's position                      *)
(* ------------------------------------------------------------------ *)
CaptionsDrawn == SelectSeq(svg, LAMBDA e : e.kind = "text" /\ e.t = L_MoreNotShown /\ e.cls = "small")

\* C28: the omission caption, drawn 18 below the cursor left by the last section drawn, is
\* above the top edge of the newsletter band
C28_CaptionAboveBand ==
    pc = "done" =>
        \A i \in 1..Len(CaptionsDrawn) :
            /\ CaptionsDrawn[i].y = P(cursor_y + 18)
            /\ CaptionsDrawn[i].y < P(band_y)

\* a finished page whose omission caption has its baseline at or below the band's top edge
C28_Witness ==
    /\ pc = "done"
    /\ SomeSectionUndrawn
    /\ Len(CaptionsDrawn) = 1
    /\ CaptionsDrawn[1].y >= P(band_y)

(* ------------------------------------------------------------------ *)
(* Properties of the classification of type tags                      *)
(* ------------------------------------------------------------------ *)
\* the CTA layout: a centred title, a centred line and a light button 140 by 34, the button
\* 90 below the header block
CtaButtonAt ==
    {i \in 1..Len(out.svg) :
        /\ out.svg[i].kind = "rect"
        /\ out.svg[i].cls = "button"
        /\ out.svg[i].w = P(140)
        /\ out.svg[i].h = P(34)
        /\ out.svg[i].y = P(first_cursor_y + 72 + 90)}
DrawnAsCtaBlock ==
    /\ CtaButtonAt # {}
    /\ \E i \in 1..Len(out.svg) :
          out.svg[i].kind = "text" /\ out.svg[i].cls = "h2" /\ out.svg[i].anchor = "middle"
\* the tags of a CTA block, canonical
CtaTags ==
    {K_cta, K_call_to_action, K_cta_section, K_footer_cta, canon(JStr(K_footer_call_to_action))}
\* header block, title and line, button, padding
CtaHeight == 72 + 90 + 34 + 18 + 8

\* C29: a section drawn as a CTA block has the fixed CTA height, whatever its components
\* are, and every CTA tag is drawn as a CTA block: sizing and drawing agree on the kind
C29_SizedAsDrawn ==
    SectionDrawn =>
        /\ type_of(sec) \in CtaTags <=> DrawnAsCtaBlock
        /\ DrawnAsCtaBlock => height = CtaHeight

\* a footer-call-to-action section drawn as a CTA block with a height that is not the CTA's
C29_Witness ==
    /\ SectionDrawn
    /\ type_of(sec) = canon(JStr(K_footer_call_to_action))
    /\ DrawnAsCtaBlock
    /\ height # CtaHeight

(* ------------------------------------------------------------------ *)
(* nav_from_page_labels entered by two threads                        *)
(* ------------------------------------------------------------------ *)
InitThreads ==
    /\ \E sm \in NavSitemapInputs, doc \in NavDocInputs : files = [sitemap |-> sm, input |-> doc]
    /\ NAV_CACHE = JNull
    /\ now = 0
    /\ page_obj = EmptyObj
    /\ pc = "idle"
    /\ svg = <<>>
    /\ cursor_y = 0
    /\ idx = 0
    /\ calls = <<>>
    /\ th_pc = [t \in Threads |-> "check"]
    /\ th_ret = [t \in Threads |-> JNull]
    /\ SectionIdle
    /\ TextIdle
    /\ MainIdle
    /\ PipeIdle
    /\ LLMIdle
    /\ EnrichIdle
    /\ ItemsIdle

thread_rest ==
    <<files, now, page_obj, pc, svg, cursor_y, idx, calls, section_vars, text_vars, main_vars,
      pipe_vars, llm_vars, enrich_vars, items_vars>>

\* if _NAV_CACHE is not None
ThreadCheck(t) ==
    /\ th_pc[t] = "check"
    /\ th_pc' = [th_pc EXCEPT ![t] = IF NAV_CACHE # JNull THEN "return" ELSE "tier1"]
    /\ UNCHANGED <<NAV_CACHE, th_ret, thread_rest>>

\* sitemap.json is read; a non-empty primary_nav list is filtered into _NAV_CACHE
ThreadTier1(t) ==
    /\ th_pc[t] = "tier1"
    /\ \E t1 \in {nav_tier_sitemap(files.sitemap)} :
          IF t1 # JNull
          THEN /\ NAV_CACHE' = t1
               /\ th_pc' = [th_pc EXCEPT ![t] = "tier1_test"]
          ELSE /\ th_pc' = [th_pc EXCEPT ![t] = "tier2"]
               /\ UNCHANGED NAV_CACHE
    /\ UNCHANGED <<th_ret, thread_rest>>

\* if _NAV_CACHE
ThreadTier1Test(t) ==
    /\ th_pc[t] = "tier1_test"
    /\ th_pc' = [th_pc EXCEPT ![t] = IF truthy(NAV_CACHE) THEN "return" ELSE "tier2"]
    /\ UNCHANGED <<NAV_CACHE, th_ret, thread_rest>>

\* the input document is read; its page labels, if any, are assigned to _NAV_CACHE
ThreadTier2(t) ==
    /\ th_pc[t] = "tier2"
    /\ \E t2 \in {nav_tier_pages(files.input)} :
          IF t2 # JNull
          THEN /\ NAV_CACHE' = t2
               /\ th_pc' = [th_pc EXCEPT ![t] = "return"]
          ELSE /\ th_pc' = [th_pc EXCEPT ![t] = "tier3"]
               /\ UNCHANGED NAV_CACHE
    /\ UNCHANGED <<th_ret, thread_rest>>

\* the built-in list is assigned to _NAV_CACHE
ThreadTier3(t) ==
    /\ th_pc[t] = "tier3"
    /\ NAV_CACHE' = JList(DEFAULT_NAV)
    /\ th_pc' = [th_pc EXCEPT ![t] = "return"]
    /\ UNCHANGED <<th_ret, thread_rest>>

\* return _NAV_CACHE
ThreadReturn(t) ==
    /\ th_pc[t] = "return"
    /\ th_ret' = [th_ret EXCEPT ![t] = NAV_CACHE]
    /\ th_pc' = [th_pc EXCEPT ![t] = "done"]
    /\ UNCHANGED <<NAV_CACHE, thread_rest>>

NextThreads ==
    \E t \in Threads :
        \/ ThreadCheck(t)
        \/ ThreadTier1(t)
        \/ ThreadTier1Test(t)
        \/ ThreadTier2(t)
        \/ ThreadTier3(t)
        \/ ThreadReturn(t)

SpecThreads == InitThreads /\ [][NextThreads]_vars

(* ------------------------------------------------------------------ *)
(* Properties of two concurrent navigation resolutions                *)
(* ------------------------------------------------------------------ *)
\* what one call on its own returns for the files of the run
SequentialNav == nav_from_page_labels(JNull, files.sitemap, files.input)

\* C30: the shared cache is never the empty list, and each of the two threads returns the
\* non-empty list a sequential run returns
C30_NoIntermediateCacheSeen ==
    /\ NAV_CACHE # JList(<<>>)
    /\ \A t \in Threads :
          th_pc[t] = "done" => (th_ret[t] = SequentialNav /\ th_ret[t] # JList(<<>>))

\* one thread has returned the empty list the other had put in the cache on its way to
\* the later tiers
C30_Witness ==
    \E t \in Threads, u \in Threads :
        /\ t # u
        /\ th_pc[t] = "done"
        /\ th_ret[t] = JList(<<>>)
        /\ th_pc[u] = "done"
        /\ th_ret[u] # JList(<<>>)
        /\ th_ret[u] = SequentialNav

====
